---- MODULE Spec2Model ----
(***************************************************************************)
(* Model of the merchant connector account administration layer of         *)
(* crates/router/src/core/admin.rs: the status/disabled resolver, the      *)
(* default routing configuration registration and the create / update /    *)
(* delete handlers of merchant connector accounts.                         *)
(*                                                                         *)
(* Option<T> is modelled as a sequence: None == <<>>, Some(x) == <<x>>.    *)
(***************************************************************************)
EXTENDS Integers, Sequences, FiniteSets, TLC

VARIABLES
    mca_store,            \* merchant connector account table: id -> record, or NoMca
    config_store,         \* routing config blobs: <<key, transaction type>> -> list of choices
    merchant_modified_at, \* logical clock of the merchant account's modified_at
    next_mca_id,          \* number of merchant connector ids generated so far
    pc,                   \* position of each in-flight create_connector request
    local,                \* request-local values of each in-flight create_connector request
    rs_in,                \* inputs of a validate_status_and_disabled call
    rs_out,               \* its result
    reg_log,              \* calls of update_merchant_default_config made so far
    merchant_account_store,  \* merchant account table: merchant id -> record
    merchant_key_store,      \* merchant ids that have a key store row
    business_profile_store,  \* business profile table: profile id -> record
    next_generated_id,       \* number of identifiers and keys generated so far
    organization_store,      \* organization table: the organization ids stored
    response,                \* the last merchant or profile request and its result
    call_in,                 \* input of a validator or classifier call
    call_out,                \* its result
    external_calls,          \* recipient creations issued: network calls and vault writes
    profile_routing,         \* profile id -> active routing algorithm ids
    redact_channel,          \* cache keys published for invalidation, in order
    routing_update           \* position and locals of a routing algorithm update

merchant_vars == <<merchant_account_store, merchant_key_store, business_profile_store,
                   next_generated_id, organization_store, response>>

validator_vars == <<call_in, call_out>>

routing_update_vars == <<profile_routing, redact_channel, routing_update>>

other_vars == <<validator_vars, external_calls, routing_update_vars>>

vars == <<mca_store, config_store, merchant_modified_at, next_mca_id, pc, local,
          rs_in, rs_out, reg_log, merchant_vars, other_vars>>

lifecycle_vars == <<mca_store, config_store, merchant_modified_at, next_mca_id, pc, local>>

-----------------------------------------------------------------------------
(* Bounds *)

MaxTouch == 2
MaxCalls == 3
MaxIds == 4

-----------------------------------------------------------------------------
(* Option helpers and enumerations *)

None == <<>>
Some(x) == <<x>>
IsSome(o) == o # <<>>
Unwrap(o) == o[1]

ConnectorStatus == {"Active", "Inactive"}

ConnectorAuthType == {"TemporaryAuth", "HeaderKey", "BodyKey", "SignatureKey",
                      "MultiAuthKey", "CurrencyAuthKey", "CertificateAuth", "NoKey"}

ConnectorType == {"PaymentProcessor", "PayoutProcessor", "AuthenticationProcessor",
                  "PaymentMethodAuth", "FraudRiskManagement"}

TransactionType == {"Payment", "Payout"}

OptionOf(S) == {None} \cup {Some(x) : x \in S}

-----------------------------------------------------------------------------
(* ConnectorStatusAndDisabledValidation *)

Ok(v) == [ok |-> TRUE, value |-> v]
Err(e) == [ok |-> FALSE, error |-> e]

validate_status_and_disabled_None_keeps_current(status, disabled, auth, current_status) ==
    LET rejected_status == status = Some("Active") /\ auth = "TemporaryAuth"
        connector_status ==
            IF IsSome(status) THEN Unwrap(status) ELSE current_status
        rejected_disabled == disabled = Some(FALSE) /\ connector_status = "Inactive"
        resolved_disabled ==
            IF IsSome(disabled) THEN disabled
            ELSE IF connector_status = "Inactive" THEN Some(TRUE)
            ELSE None
    IN  IF rejected_status
        THEN Err("InvalidRequestData: status cannot be active when using TemporaryAuth")
        ELSE IF rejected_disabled
        THEN Err("InvalidRequestData: cannot be enabled when inactive")
        ELSE Ok([status |-> connector_status, disabled |-> resolved_disabled])

validate_status_and_disabled_accepts_active_temporary(status, disabled, auth, current_status) ==
    LET connector_status ==
            IF IsSome(status) THEN Unwrap(status)
            ELSE IF auth = "TemporaryAuth" THEN "Inactive"
            ELSE current_status
        rejected_disabled == disabled = Some(FALSE) /\ connector_status = "Inactive"
        resolved_disabled ==
            IF IsSome(disabled) THEN disabled
            ELSE IF connector_status = "Inactive" THEN Some(TRUE)
            ELSE None
    IN  IF rejected_disabled
        THEN Err("InvalidRequestData: cannot be enabled when inactive")
        ELSE Ok([status |-> connector_status, disabled |-> resolved_disabled])

validate_status_and_disabled_accepts_enabled_inactive(status, disabled, auth, current_status) ==
    LET rejected_status == status = Some("Active") /\ auth = "TemporaryAuth"
        connector_status ==
            IF IsSome(status) THEN Unwrap(status)
            ELSE IF auth = "TemporaryAuth" THEN "Inactive"
            ELSE current_status
        resolved_disabled ==
            IF IsSome(disabled) THEN disabled
            ELSE IF connector_status = "Inactive" THEN Some(TRUE)
            ELSE None
    IN  IF rejected_status
        THEN Err("InvalidRequestData: status cannot be active when using TemporaryAuth")
        ELSE Ok([status |-> connector_status, disabled |-> resolved_disabled])

validate_status_and_disabled_no_default_disabled(status, disabled, auth, current_status) ==
    LET rejected_status == status = Some("Active") /\ auth = "TemporaryAuth"
        connector_status ==
            IF IsSome(status) THEN Unwrap(status)
            ELSE IF auth = "TemporaryAuth" THEN "Inactive"
            ELSE current_status
        rejected_disabled == disabled = Some(FALSE) /\ connector_status = "Inactive"
    IN  IF rejected_status
        THEN Err("InvalidRequestData: status cannot be active when using TemporaryAuth")
        ELSE IF rejected_disabled
        THEN Err("InvalidRequestData: cannot be enabled when inactive")
        ELSE Ok([status |-> connector_status, disabled |-> disabled])

\* admin.rs 1644-1679: first match resolves the status, second match the disabled flag
validate_status_and_disabled(status, disabled, auth, current_status) ==
    LET rejected_status == status = Some("Active") /\ auth = "TemporaryAuth"
        connector_status ==
            IF IsSome(status) THEN Unwrap(status)
            ELSE IF auth = "TemporaryAuth" THEN "Inactive"
            ELSE current_status
        rejected_disabled == disabled = Some(FALSE) /\ connector_status = "Inactive"
        resolved_disabled ==
            IF IsSome(disabled) THEN disabled
            ELSE IF connector_status = "Inactive" THEN Some(TRUE)
            ELSE None
    IN  IF rejected_status
        THEN Err("InvalidRequestData: status cannot be active when using TemporaryAuth")
        ELSE IF rejected_disabled
        THEN Err("InvalidRequestData: cannot be enabled when inactive")
        ELSE Ok([status |-> connector_status, disabled |-> resolved_disabled])

\* admin.rs 2439: the create bridge passes Active as the current status
create_current_status == "Active"

-----------------------------------------------------------------------------
(* The two call sites of validate_status_and_disabled, applied to drawn inputs *)

ResolverInputs ==
    [site : {"create", "update"},
     status : OptionOf(ConnectorStatus),
     disabled : OptionOf(BOOLEAN),
     auth : ConnectorAuthType,
     mca_status : ConnectorStatus]

Pending == [ok |-> FALSE, error |-> "pending"]

\* no validator or classifier has been called
NoCall == [fn |-> "none"]

\* admin.rs 2435-2442: create bridge, current_status is the constant Active
CreateBridgeResolve ==
    /\ rs_out = Pending
    /\ rs_in.site = "create"
    /\ rs_out' = validate_status_and_disabled(rs_in.status, rs_in.disabled, rs_in.auth,
                                              create_current_status)
    /\ UNCHANGED <<rs_in, reg_log, lifecycle_vars, merchant_vars, other_vars>>

\* admin.rs 2143-2150: update bridge, current_status is the stored account's status
UpdateBridgeResolve ==
    /\ rs_out = Pending
    /\ rs_in.site = "update"
    /\ rs_out' = validate_status_and_disabled(rs_in.status, rs_in.disabled, rs_in.auth,
                                              rs_in.mca_status)
    /\ UNCHANGED <<rs_in, reg_log, lifecycle_vars, merchant_vars, other_vars>>

-----------------------------------------------------------------------------
(* Collaborator data: merchant, business profiles, connector tables *)

\* the one merchant account the requests address
merchant_id == "M1"

\* business profile table: profile id -> owning merchant and profile name
business_profiles ==
    [pid \in {"P1", "P2", "PX"} |->
        [merchant_id |-> IF pid = "PX" THEN "M2" ELSE "M1",
         profile_name |-> pid]]

\* the merchant account's default_profile
default_profile == None

\* merchant ids with a key store row, and those with a merchant account row: "MK" has
\* a key store only (create_merchant_account inserts the key store first, 239-250)
merchant_key_stores == {"M1", "M2", "MK"}
merchant_accounts == {"M1", "M2"}

\* connectors of Connector::validate_dummy_connector_enabled, and conf.dummy_connector.enabled
DummyConnectors == {"stripe_test"}
dummy_connector_enabled == FALSE

\* api_enums::RoutableConnectors::from_str succeeds exactly for these names
RoutableConnectors == {"stripe", "paypal"}

\* api_enums::convert_pm_auth_connector / convert_authentication_connector tables
PmAuthConnectors == {"plaid"}
AuthenticationConnectors == {"threedsecureio"}

\* fraud-risk-management connectors of api_enums::Connector (admin.rs 1529-1536);
\* they are in none of the three tables
FrmConnectors == {"signifyd"}

\* the auth variant each connector's transformer accepts in try_from(auth_type)
connector_auth_variants(connector_name) ==
    CASE connector_name = "stripe" -> {"HeaderKey"}
      [] connector_name = "paypal" -> {"BodyKey", "SignatureKey", "TemporaryAuth"}
      [] connector_name = "adyen" -> {"BodyKey", "SignatureKey"}
      [] connector_name = "plaid" -> {"BodyKey"}
      [] connector_name = "threedsecureio" -> {"HeaderKey"}
      [] connector_name = "signifyd" -> {"HeaderKey"}
      [] OTHER -> {}

\* MerchantConnectorCreate::get_transaction_type
get_transaction_type(connector_type) ==
    IF connector_type = "PayoutProcessor" THEN "Payout" ELSE "Payment"

-----------------------------------------------------------------------------
(* Routing config blob store (routing_helpers) *)

ConfigKeys == {"M1", "P1", "P2"}

get_merchant_default_config(store, key, transaction_type) ==
    store[<<key, transaction_type>>]

routing_update_merchant_default_config(store, key, connectors, transaction_type) ==
    [store EXCEPT ![<<key, transaction_type>>] = connectors]

Contains(list, x) == \E i \in 1..Len(list) : list[i] = x

Count(list, x) == Cardinality({i \in 1..Len(list) : list[i] = x})

-----------------------------------------------------------------------------
(* ConnectorTypeAndConnectorName::get_routable_connector, admin.rs 1836-1872 *)

\* a classifier that does not look at the connector type
get_routable_connector_any_type(connector_type, connector_name) ==
    IF connector_name \in PmAuthConnectors \cup AuthenticationConnectors
    THEN Ok(IF connector_name \in RoutableConnectors THEN Some(connector_name) ELSE None)
    ELSE IF connector_name \in RoutableConnectors
         THEN Ok(Some(connector_name))
         ELSE Err("InvalidRequestData: Invalid connector name given")

get_routable_connector(connector_type, connector_name) ==
    LET routable_connector ==
            IF connector_name \in RoutableConnectors THEN Some(connector_name) ELSE None
    IN  IF connector_name \in PmAuthConnectors
        THEN IF connector_type # "PaymentMethodAuth" /\ connector_type # "PaymentProcessor"
             THEN Err("InvalidRequestData: Invalid connector type given")
             ELSE Ok(routable_connector)
        ELSE IF connector_name \in AuthenticationConnectors
        THEN IF connector_type # "AuthenticationProcessor"
             THEN Err("InvalidRequestData: Invalid connector type given")
             ELSE Ok(routable_connector)
        ELSE IF connector_name \in RoutableConnectors
             THEN Ok(Some(connector_name))
             ELSE Err("InvalidRequestData: Invalid connector name given")

\* get_routable_connector called on its own
GetRoutableConnectorCall(connector_type, connector_name) ==
    /\ call_in' = [fn |-> "get_routable_connector",
                   connector_type |-> connector_type,
                   connector_name |-> connector_name]
    /\ call_out' = get_routable_connector(connector_type, connector_name)
    /\ UNCHANGED <<lifecycle_vars, rs_in, rs_out, reg_log, merchant_vars, external_calls,
                   routing_update_vars>>

-----------------------------------------------------------------------------
(* MerchantDefaultConfigUpdate::update_merchant_default_config, admin.rs 1887-1919 *)
(* self is the struct of admin.rs 1875-1884 without the store handle.         *)

\* admin.rs 1892-1896
routable_connector_choice(self) ==
    [choice_kind |-> "FullStruct",
     connector |-> Unwrap(self.routable_connector),
     merchant_connector_id |-> Some(self.merchant_connector_id)]

merchant_level_absent_always(self) == IsSome(self.routable_connector)

\* admin.rs 1891, 1897: the merchant-level list is written only when the choice is absent
merchant_level_absent(self) ==
    /\ IsSome(self.routable_connector)
    /\ ~Contains(self.default_routing_config, routable_connector_choice(self))

\* admin.rs 1891, 1907
profile_level_absent(self) ==
    /\ IsSome(self.routable_connector)
    /\ ~Contains(self.default_routing_config_for_profile, routable_connector_choice(self))

merchant_level_update_skipped(self, store) == store

merchant_level_update_other_transaction_type(self, store) ==
    IF merchant_level_absent(self)
    THEN routing_update_merchant_default_config(
            store, self.merchant_id,
            Append(self.default_routing_config, routable_connector_choice(self)),
            IF self.transaction_type = "Payment" THEN "Payout" ELSE "Payment")
    ELSE store

merchant_level_update_appends_to_stored(self, store) ==
    LET stored == get_merchant_default_config(store, self.merchant_id, self.transaction_type)
    IN  IF IsSome(self.routable_connector) /\ ~Contains(stored, routable_connector_choice(self))
        THEN routing_update_merchant_default_config(
                store, self.merchant_id,
                Append(stored, routable_connector_choice(self)),
                self.transaction_type)
        ELSE store

\* admin.rs 1897-1906
merchant_level_update(self, store) ==
    IF merchant_level_absent(self)
    THEN routing_update_merchant_default_config(
            store, self.merchant_id,
            Append(self.default_routing_config, routable_connector_choice(self)),
            self.transaction_type)
    ELSE store

\* a registration that puts a new choice in front of the profile-level list
profile_level_update_prepends(self, store) ==
    IF profile_level_absent(self)
    THEN routing_update_merchant_default_config(
            store, self.profile_id,
            <<routable_connector_choice(self)>> \o self.default_routing_config_for_profile,
            self.transaction_type)
    ELSE store

\* admin.rs 1907-1916
profile_level_update(self, store) ==
    IF profile_level_absent(self)
    THEN routing_update_merchant_default_config(
            store, self.profile_id,
            Append(self.default_routing_config_for_profile, routable_connector_choice(self)),
            self.transaction_type)
    ELSE store

\* number of store writes one call performs
update_merchant_default_config_writes(self) ==
    (IF merchant_level_absent(self) THEN 1 ELSE 0)
    + (IF profile_level_absent(self) THEN 1 ELSE 0)

\* the whole call, run without interruption
update_merchant_default_config(self, store) ==
    profile_level_update(self, merchant_level_update(self, store))

-----------------------------------------------------------------------------
(* Requests *)

ReqProfiles == {"P1", "P2", "PX"}

\* api::MerchantConnectorCreate with the merchant id of the route;
\* connector_account_details is given by its auth variant, metadata by the outcome
\* of parsing it, pm_auth_config by the connector account ids it references
CreateRequestsWith(merchants, connectors, types, profiles, auths, statuses, disableds, metadatas, pm_auth_configs) ==
    [merchant_id : merchants,
     connector_name : connectors,
     connector_type : types,
     profile_id : profiles,
     connector_label : {None},
     auth : auths,
     status : statuses,
     disabled : disableds,
     metadata : metadatas,
     pm_auth_config : pm_auth_configs]

\* requests of merchant "M1" without metadata and pm_auth_config
CreateRequestsOf(connectors, types, profiles, auths, statuses, disableds) ==
    CreateRequestsWith({merchant_id}, connectors, types, profiles, auths, statuses,
                       disableds, {None}, {None})

\* api_models::admin::MerchantConnectorUpdate
UpdateRequestsOf(types, auths, statuses, disableds) ==
    [connector_type : types,
     connector_label : {None},
     auth : auths,
     status : statuses,
     disabled : disableds,
     pm_auth_config : {None}]

\* requests that vary the connector, its type and the profile
RoutingCreateRequests ==
    CreateRequestsOf({"stripe", "threedsecureio"},
                     {"PaymentProcessor", "PayoutProcessor", "AuthenticationProcessor"},
                     OptionOf(ReqProfiles), {"HeaderKey", "BodyKey"}, {None}, {None})

RoutingUpdateRequests ==
    UpdateRequestsOf({"PaymentProcessor", "PayoutProcessor"}, {None}, {None},
                     OptionOf(BOOLEAN))

\* requests that vary the auth variant, the status and the disabled flag
StatusCreateRequests ==
    CreateRequestsOf({"stripe", "paypal"}, {"PaymentProcessor"}, {Some("P1")},
                     {"HeaderKey", "BodyKey", "TemporaryAuth"},
                     OptionOf(ConnectorStatus), OptionOf(BOOLEAN))

StatusUpdateRequests ==
    UpdateRequestsOf({"PaymentProcessor"},
                     OptionOf({"HeaderKey", "BodyKey", "TemporaryAuth"}),
                     OptionOf(ConnectorStatus), OptionOf(BOOLEAN))

\* requests of two concurrent creations
ConcurrentCreateRequests ==
    CreateRequestsOf({"stripe", "paypal"}, {"PaymentProcessor"},
                     {Some("P1"), Some("P2")}, {"HeaderKey", "BodyKey"}, {None}, {None})

\* connector metadata: well formed with usable Apple Pay certificates, not
\* deserializable, or carrying a certificate that does not decode
ConnectorMetadataValues == {"apple_pay_valid", "malformed", "apple_pay_bad_certificate"}

\* pm_auth_config: whether it deserializes, and the connector account ids it references
PmAuthConfigValues ==
    [well_formed : {TRUE}, mca_ids : {<<>>, <<1>>, <<2>>}]
    \cup [well_formed : {FALSE}, mca_ids : {<<>>}]

\* requests that fail at each of the checks made before the first write
FaultCreateRequests ==
    CreateRequestsWith({"M1"}, {"stripe", "stripe_test", "plaid"},
                       {"PaymentProcessor", "AuthenticationProcessor"},
                       {None, Some("P1"), Some("PX")}, {"HeaderKey", "BodyKey"},
                       {None, Some("Active")}, {None}, {None}, {None})
    \cup CreateRequestsWith({"M0", "MK"}, {"stripe"}, {"PaymentProcessor"},
                            {Some("P1")}, {"HeaderKey"}, {None}, {None}, {None}, {None})
    \cup CreateRequestsWith({"M1"}, {"stripe"}, {"PaymentProcessor", "PaymentMethodAuth"},
                            {Some("P1"), Some("P2")}, {"HeaderKey"}, {None}, {None},
                            OptionOf(ConnectorMetadataValues), OptionOf(PmAuthConfigValues))

-----------------------------------------------------------------------------
(* create_connector, admin.rs 2584-2750 *)

\* admin.rs 2544-2580 with core_utils::validate_and_get_business_profile; the
\* requests carry no business_country / business_label
validate_and_get_profile_id(req) ==
    LET chosen == IF IsSome(req.profile_id) THEN req.profile_id ELSE default_profile
    IN  IF IsSome(chosen)
        THEN IF Unwrap(chosen) \notin DOMAIN business_profiles
             THEN Err("BusinessProfileNotFound")
             ELSE IF business_profiles[Unwrap(chosen)].merchant_id # req.merchant_id
             THEN Err("AccessForbidden")
             ELSE Ok(Unwrap(chosen))
        ELSE Err("MissingRequiredField: profile_id or business_country, business_label")

\* admin.rs 2591-2597
validate_dummy_connector_enabled(connector_name) ==
    connector_name \notin DummyConnectors \/ dummy_connector_enabled

\* admin.rs 1741-1763
validate_apple_pay_certificates_in_mca_metadata(metadata) ==
    IF metadata = Some("malformed")
    THEN Err("InvalidDataFormat: metadata")
    ELSE IF metadata = Some("apple_pay_bad_certificate")
    THEN Err("InvalidDataValue: certificate/certificate key")
    ELSE Ok(TRUE)

\* a check that only looks for the referenced accounts, not at their profile
validate_pm_auth_any_profile(val, store, profile_id) ==
    IF ~val.well_formed
    THEN Err("InvalidRequestData: invalid data received for payment method auth config")
    ELSE IF \E i \in 1..Len(val.mca_ids) : val.mca_ids[i] \notin DOMAIN store
    THEN Err("GenericNotFoundError: payment method auth connector account not found")
    ELSE Ok(TRUE)

\* admin.rs 1777-1818 and 2756-2797: the references are taken in the config's order
\* and the first one that is not an account of the merchant, or lies in another
\* profile than the connector account, ends the check; the table holds the
\* accounts of the one merchant
validate_pm_auth(val, store, profile_id) ==
    LET failing == {i \in 1..Len(val.mca_ids) :
                       \/ val.mca_ids[i] \notin DOMAIN store
                       \/ store[val.mca_ids[i]].profile_id # profile_id}
        first == CHOOSE i \in failing : \A j \in failing : i <= j
    IN  IF ~val.well_formed
        THEN Err("InvalidRequestData: invalid data received for payment method auth config")
        ELSE IF failing = {}
        THEN Ok(TRUE)
        ELSE IF val.mca_ids[first] \notin DOMAIN store
        THEN Err("GenericNotFoundError: payment method auth connector account not found")
        ELSE Err("GenericNotFoundError: payment method auth profile_id differs from connector profile_id")

\* admin.rs 1820-1827
validate_pm_auth_config(req, store, profile_id) ==
    IF req.connector_type # "PaymentMethodAuth" /\ IsSome(req.pm_auth_config)
    THEN validate_pm_auth(Unwrap(req.pm_auth_config), store, profile_id)
    ELSE Ok(TRUE)

\* admin.rs 2591-2664: the checks made before the first write, in the handler's order
create_connector_validation(req, store) ==
    LET metadata == validate_apple_pay_certificates_in_mca_metadata(req.metadata)
        profile == validate_and_get_profile_id(req)
        pm_auth == validate_pm_auth_config(req, store, profile.value)
        routable == get_routable_connector(req.connector_type, req.connector_name)
    IN  IF ~validate_dummy_connector_enabled(req.connector_name)
        THEN Err("InvalidRequestData: Invalid connector name")
        ELSE IF req.merchant_id \notin merchant_key_stores
        THEN Err("MerchantAccountNotFound")
        ELSE IF ~metadata.ok THEN metadata
        ELSE IF req.merchant_id \notin merchant_accounts
        THEN Err("MerchantAccountNotFound")
        ELSE IF ~profile.ok THEN profile
        ELSE IF ~pm_auth.ok THEN pm_auth
        ELSE IF profile.value \notin DOMAIN business_profiles
        THEN Err("BusinessProfileNotFound")
        ELSE IF ~routable.ok THEN routable
        ELSE Ok([profile_id |-> profile.value, routable_connector |-> routable.value])

\* admin.rs 1216-1243: the auth variant must be the one the connector expects
validate_auth_and_metadata_type(connector_name, auth) ==
    auth \in connector_auth_variants(connector_name)

\* admin.rs 2402-2414: generated label is "{connector_name}_{profile_name}"
get_connector_label(req, profile_id) ==
    IF IsSome(req.connector_label)
    THEN <<Unwrap(req.connector_label)>>
    ELSE <<req.connector_name, business_profiles[profile_id].profile_name>>

\* admin.rs 2394-2531 (create bridge)
create_domain_model_from_request(req, profile_id, new_id) ==
    LET resolved == validate_status_and_disabled(req.status, req.disabled, req.auth,
                                                 create_current_status)
    IN  IF ~validate_auth_and_metadata_type(req.connector_name, req.auth)
        THEN Err("InvalidRequestData: auth type invalid for the connector")
        ELSE IF ~resolved.ok THEN resolved
        ELSE Ok([merchant_connector_id |-> new_id,
                 merchant_id |-> business_profiles[profile_id].merchant_id,
                 connector_name |-> req.connector_name,
                 connector_type |-> req.connector_type,
                 profile_id |-> profile_id,
                 connector_label |-> get_connector_label(req, profile_id),
                 auth |-> req.auth,
                 status |-> resolved.value.status,
                 disabled |-> resolved.value.disabled])

Procs == {1, 2}

IdleLocal ==
    [mca |-> None,
     routable_connector |-> None,
     transaction_type |-> "Payment",
     profile_id |-> None,
     default_routing_config |-> <<>>,
     default_routing_config_for_profile |-> <<>>,
     result |-> None]

AllIdle == \A q \in Procs : pc[q] = "idle"

Finish(p, result) ==
    /\ pc' = [pc EXCEPT ![p] = "done"]
    /\ local' = [local EXCEPT ![p].result = Some(result)]

create_connector_before_insert_touches_first(req, store, new_id) ==
    LET v == create_connector_validation(req, store)
        b == create_domain_model_from_request(req, v.value.profile_id, new_id)
    IN  IF ~v.ok
        THEN [touched |-> req.merchant_id \in merchant_accounts, built |-> v]
        ELSE [touched |-> TRUE,
              built |-> IF ~b.ok THEN b
                        ELSE Ok([mca |-> b.value,
                                 routable_connector |-> v.value.routable_connector,
                                 profile_id |-> v.value.profile_id])]

create_connector_before_insert_touches_routable_only(req, store, new_id) ==
    LET v == create_connector_validation(req, store)
        b == create_domain_model_from_request(req, v.value.profile_id, new_id)
    IN  IF ~v.ok
        THEN [touched |-> FALSE, built |-> v]
        ELSE [touched |-> IsSome(v.value.routable_connector),
              built |-> IF ~b.ok THEN b
                        ELSE Ok([mca |-> b.value,
                                 routable_connector |-> v.value.routable_connector,
                                 profile_id |-> v.value.profile_id])]

\* admin.rs 2591-2688: the checks, then the ModifiedAtUpdate of the merchant
\* account (2668-2678), then the domain model (2680-2688); touched tells whether
\* the ModifiedAtUpdate was issued
create_connector_before_insert(req, store, new_id) ==
    LET v == create_connector_validation(req, store)
        b == create_domain_model_from_request(req, v.value.profile_id, new_id)
    IN  IF ~v.ok
        THEN [touched |-> FALSE, built |-> v]
        ELSE [touched |-> TRUE,
              built |-> IF ~b.ok THEN b
                        ELSE Ok([mca |-> b.value,
                                 routable_connector |-> v.value.routable_connector,
                                 profile_id |-> v.value.profile_id])]

\* admin.rs 2591-2690
CreateStart(p, req) ==
    /\ pc[p] = "idle"
    /\ merchant_modified_at < MaxTouch
    /\ LET s == create_connector_before_insert(req, mca_store, next_mca_id + 1)
       IN  /\ merchant_modified_at' =
                  IF s.touched THEN merchant_modified_at + 1 ELSE merchant_modified_at
           /\ IF ~s.built.ok
              THEN /\ Finish(p, s.built.error)
                   /\ UNCHANGED next_mca_id
              ELSE /\ next_mca_id' = next_mca_id + 1
                   /\ pc' = [pc EXCEPT ![p] = "read_merchant_config"]
                   /\ local' = [local EXCEPT ![p] =
                         [mca |-> Some(s.built.value.mca),
                          routable_connector |-> s.built.value.routable_connector,
                          transaction_type |-> get_transaction_type(req.connector_type),
                          profile_id |-> Some(s.built.value.profile_id),
                          default_routing_config |-> <<>>,
                          default_routing_config_for_profile |-> <<>>,
                          result |-> None]]
    /\ UNCHANGED <<mca_store, config_store, rs_in, rs_out, reg_log, merchant_vars, other_vars>>

\* admin.rs 2668-2678 when the store rejects the ModifiedAtUpdate: the error is
\* returned as InternalServerError before the domain model is built
CreateStartModifiedAtUpdateFails(p, req) ==
    /\ pc[p] = "idle"
    /\ create_connector_before_insert(req, mca_store, next_mca_id + 1).touched
    /\ Finish(p, "InternalServerError")
    /\ UNCHANGED <<mca_store, config_store, merchant_modified_at, next_mca_id,
                   rs_in, rs_out, reg_log, merchant_vars, other_vars>>

\* admin.rs 2692-2697
CreateReadMerchantConfig(p) ==
    /\ pc[p] = "read_merchant_config"
    /\ local' = [local EXCEPT ![p].default_routing_config =
                    get_merchant_default_config(config_store, merchant_id,
                                                local[p].transaction_type)]
    /\ pc' = [pc EXCEPT ![p] = "read_profile_config"]
    /\ UNCHANGED <<mca_store, config_store, merchant_modified_at, next_mca_id,
                   rs_in, rs_out, reg_log, merchant_vars, other_vars>>

\* admin.rs 2699-2704
CreateReadProfileConfig(p) ==
    /\ pc[p] = "read_profile_config"
    /\ local' = [local EXCEPT ![p].default_routing_config_for_profile =
                    get_merchant_default_config(config_store, Unwrap(local[p].profile_id),
                                                local[p].transaction_type)]
    /\ pc' = [pc EXCEPT ![p] = "insert"]
    /\ UNCHANGED <<mca_store, config_store, merchant_modified_at, next_mca_id,
                   rs_in, rs_out, reg_log, merchant_vars, other_vars>>

\* the store's uniqueness constraint on (profile id, connector label)
IsDuplicate(store, mca) ==
    \E id \in DOMAIN store :
        /\ id # mca.merchant_connector_id
        /\ store[id].profile_id = mca.profile_id
        /\ store[id].connector_label = mca.connector_label

insert_merchant_connector_account_replaces(store, mca) ==
    Ok([id \in {i \in DOMAIN store :
                    \/ store[i].profile_id # mca.profile_id
                    \/ store[i].connector_label # mca.connector_label}
                \cup {mca.merchant_connector_id} |->
            IF id = mca.merchant_connector_id THEN mca ELSE store[id]])

\* admin.rs 2706-2721: the insert and its to_duplicate_response
insert_merchant_connector_account(store, mca) ==
    IF IsDuplicate(store, mca)
    THEN Err("DuplicateMerchantConnectorAccount")
    ELSE Ok(store @@ (mca.merchant_connector_id :> mca))

\* admin.rs 2706-2721
CreateInsert(p) ==
    /\ pc[p] = "insert"
    /\ LET inserted == insert_merchant_connector_account(mca_store, Unwrap(local[p].mca))
       IN  IF ~inserted.ok
           THEN /\ Finish(p, inserted.error)
                /\ UNCHANGED mca_store
           ELSE /\ mca_store' = inserted.value
                /\ pc' = [pc EXCEPT ![p] = "update_merchant_level"]
                /\ UNCHANGED local
    /\ UNCHANGED <<config_store, merchant_modified_at, next_mca_id, rs_in, rs_out, reg_log, merchant_vars, other_vars>>

\* admin.rs 2724-2733
merchant_default_config_update(p) ==
    [routable_connector |-> local[p].routable_connector,
     merchant_connector_id |-> Unwrap(local[p].mca).merchant_connector_id,
     merchant_id |-> merchant_id,
     default_routing_config |-> local[p].default_routing_config,
     default_routing_config_for_profile |-> local[p].default_routing_config_for_profile,
     profile_id |-> Unwrap(local[p].profile_id),
     transaction_type |-> local[p].transaction_type]

\* admin.rs 2735-2737 with 1897-1906
CreateUpdateMerchantLevel(p) ==
    /\ pc[p] = "update_merchant_level"
    /\ config_store' = merchant_level_update(merchant_default_config_update(p), config_store)
    /\ pc' = [pc EXCEPT ![p] = "update_profile_level"]
    /\ UNCHANGED <<mca_store, merchant_modified_at, next_mca_id, local, rs_in, rs_out, reg_log, merchant_vars, other_vars>>

\* admin.rs 2735-2750 with 1907-1918
CreateUpdateProfileLevel(p) ==
    /\ pc[p] = "update_profile_level"
    /\ config_store' = profile_level_update(merchant_default_config_update(p), config_store)
    /\ Finish(p, "Ok")
    /\ UNCHANGED <<mca_store, merchant_modified_at, next_mca_id, rs_in, rs_out, reg_log, merchant_vars, other_vars>>

mca_store_after_routing_failure_rolls_back(store, id) ==
    [i \in DOMAIN store \ {id} |-> store[i]]

\* admin.rs 2735-2737: the error of update_merchant_default_config is returned
\* with `?`; no call removes the account inserted at 2706-2721
mca_store_after_routing_failure(store, id) == store

\* admin.rs 1897-1906 when the store rejects the write of the merchant-level list:
\* the `?` of 1906 returns before the profile-level list is looked at
CreateUpdateMerchantLevelFails(p) ==
    /\ pc[p] = "update_merchant_level"
    /\ merchant_level_absent(merchant_default_config_update(p))
    /\ mca_store' = mca_store_after_routing_failure(
                        mca_store, Unwrap(local[p].mca).merchant_connector_id)
    /\ Finish(p, "InternalServerError")
    /\ UNCHANGED <<config_store, merchant_modified_at, next_mca_id, rs_in, rs_out, reg_log, merchant_vars, other_vars>>

\* the failure of the profile-level write, mutated: the merchant-level list is put
\* back to the list the request read
CreateUpdateProfileLevelFails_rolls_back(p) ==
    /\ pc[p] = "update_profile_level"
    /\ profile_level_absent(merchant_default_config_update(p))
    /\ mca_store' = mca_store
    /\ config_store' = routing_update_merchant_default_config(
                           config_store, merchant_id, local[p].default_routing_config,
                           local[p].transaction_type)
    /\ Finish(p, "InternalServerError")
    /\ UNCHANGED <<merchant_modified_at, next_mca_id, rs_in, rs_out, reg_log, merchant_vars, other_vars>>

\* admin.rs 1907-1916 when the store rejects the write of the profile-level list
CreateUpdateProfileLevelFails(p) ==
    /\ pc[p] = "update_profile_level"
    /\ profile_level_absent(merchant_default_config_update(p))
    /\ mca_store' = mca_store_after_routing_failure(
                        mca_store, Unwrap(local[p].mca).merchant_connector_id)
    /\ Finish(p, "InternalServerError")
    /\ UNCHANGED <<config_store, merchant_modified_at, next_mca_id, rs_in, rs_out, reg_log, merchant_vars, other_vars>>

\* the response is returned and the request's locals are dropped
CreateReturn(p) ==
    /\ pc[p] = "done"
    /\ pc' = [pc EXCEPT ![p] = "idle"]
    /\ local' = [local EXCEPT ![p] = IdleLocal]
    /\ UNCHANGED <<mca_store, config_store, merchant_modified_at, next_mca_id,
                   rs_in, rs_out, reg_log, merchant_vars, other_vars>>

-----------------------------------------------------------------------------
(* update_connector, admin.rs 2934-3006 *)

\* an update bridge that fills connector_name in the storage update
MerchantConnectorUpdate_create_domain_model_from_request_renames(req, mca, store) ==
    LET auth == IF IsSome(req.auth) THEN Unwrap(req.auth) ELSE mca.auth
        resolved == validate_status_and_disabled(req.status, req.disabled, auth, mca.status)
    IN  IF ~resolved.ok THEN resolved
        ELSE Ok([connector_type |-> Some(req.connector_type),
                 connector_name |-> Some("paypal"),
                 merchant_connector_id |-> None,
                 connector_label |-> req.connector_label,
                 connector_account_details |-> req.auth,
                 disabled |-> resolved.value.disabled,
                 status |-> Some(resolved.value.status)])

\* admin.rs 2100-2208 (update bridge): the auth is the request's, else the stored
\* one; the payment-method-auth config is checked last (2152-2165)
MerchantConnectorUpdate_create_domain_model_from_request(req, mca, store) ==
    LET auth == IF IsSome(req.auth) THEN Unwrap(req.auth) ELSE mca.auth
        resolved == validate_status_and_disabled(req.status, req.disabled, auth, mca.status)
        pm_auth == IF req.connector_type # "PaymentMethodAuth" /\ IsSome(req.pm_auth_config)
                   THEN validate_pm_auth(Unwrap(req.pm_auth_config), store, mca.profile_id)
                   ELSE Ok(TRUE)
    IN  IF ~validate_auth_and_metadata_type(mca.connector_name, auth)
        THEN Err("InvalidRequestData: auth type invalid for the connector")
        ELSE IF ~resolved.ok THEN resolved
        ELSE IF ~pm_auth.ok THEN pm_auth
        ELSE Ok([connector_type |-> Some(req.connector_type),
                 connector_name |-> None,
                 merchant_connector_id |-> None,
                 connector_label |-> req.connector_label,
                 connector_account_details |-> req.auth,
                 disabled |-> resolved.value.disabled,
                 status |-> Some(resolved.value.status)])

\* the store applies MerchantConnectorAccountUpdate::Update: an absent field keeps
\* the stored value
apply_update(mca, update) ==
    [mca EXCEPT
        !.connector_type = IF IsSome(update.connector_type)
                           THEN Unwrap(update.connector_type) ELSE @,
        !.connector_name = IF IsSome(update.connector_name)
                           THEN Unwrap(update.connector_name) ELSE @,
        !.merchant_connector_id = IF IsSome(update.merchant_connector_id)
                                  THEN Unwrap(update.merchant_connector_id) ELSE @,
        !.connector_label = IF IsSome(update.connector_label)
                            THEN <<Unwrap(update.connector_label)>> ELSE @,
        !.auth = IF IsSome(update.connector_account_details)
                 THEN Unwrap(update.connector_account_details) ELSE @,
        !.disabled = IF IsSome(update.disabled) THEN update.disabled ELSE @,
        !.status = IF IsSome(update.status) THEN Unwrap(update.status) ELSE @]

\* admin.rs 2957-3005: a rejected request writes nothing
UpdateConnector(id, req) ==
    /\ id \in DOMAIN mca_store
    /\ LET update == MerchantConnectorUpdate_create_domain_model_from_request(
                         req, mca_store[id], mca_store)
           updated == apply_update(mca_store[id], update.value)
       IN  /\ update.ok
           /\ ~IsDuplicate(mca_store, updated)
           /\ mca_store' = [mca_store EXCEPT ![id] = updated]
    /\ UNCHANGED <<config_store, merchant_modified_at, next_mca_id, pc, local,
                   rs_in, rs_out, reg_log, merchant_vars, other_vars>>

\* storage errors update_merchant_connector_account can report besides a
\* duplicate key, and "none" for a store that works
UpdateStoreFaults == {"none", "ValueNotFound", "DatabaseError"}

\* the store's update of one row: a failure of the store, the uniqueness
\* constraint on (profile id, connector label), or the row replaced
update_merchant_connector_account(store, id, updated, fault) ==
    IF fault # "none"
    THEN Err(fault)
    ELSE IF IsDuplicate(store, updated)
    THEN Err("DuplicateValue")
    ELSE Ok([store EXCEPT ![id] = updated])

\* admin.rs 2933-3006 for a request of merchant "M1" without a profile id from the
\* auth layer: the account is read (2956-2965), the update is built (2968-2977)
\* and written (2984-2991); change_context (2992-2997) turns every error of the
\* write into DuplicateMerchantConnectorAccount
update_connector(store, id, req, fault) ==
    LET update == MerchantConnectorUpdate_create_domain_model_from_request(
                      req, store[id], store)
        written == update_merchant_connector_account(
                       store, id, apply_update(store[id], update.value), fault)
    IN  IF id \notin DOMAIN store
        THEN [store |-> store, result |-> Err("MerchantConnectorAccountNotFound")]
        ELSE IF ~update.ok
        THEN [store |-> store, result |-> update]
        ELSE IF ~written.ok
        THEN [store |-> store, result |-> Err("DuplicateMerchantConnectorAccount")]
        ELSE [store |-> written.value, result |-> Ok(written.value[id])]

\* update_connector served from the request to the response; store_error is what
\* the write reported
UpdateConnectorRequest(id, req, fault) ==
    /\ LET outcome == update_connector(mca_store, id, req, fault)
           update == MerchantConnectorUpdate_create_domain_model_from_request(
                         req, mca_store[id], mca_store)
           written == update_merchant_connector_account(
                          mca_store, id, apply_update(mca_store[id], update.value), fault)
       IN  /\ mca_store' = outcome.store
           /\ call_in' = [fn |-> "update_connector",
                          merchant_connector_id |-> id,
                          req |-> req,
                          store_error |-> IF id \in DOMAIN mca_store /\ update.ok /\ ~written.ok
                                          THEN written.error ELSE "none"]
           /\ call_out' = outcome.result
    /\ UNCHANGED <<config_store, merchant_modified_at, next_mca_id, pc, local,
                   rs_in, rs_out, reg_log, merchant_vars, external_calls,
                   routing_update_vars>>

-----------------------------------------------------------------------------
(* delete_connector, admin.rs 3012-3061 *)

delete_connector_prunes_routing(id, store) ==
    [k \in DOMAIN store |->
        SelectSeq(store[k], LAMBDA c : c.merchant_connector_id # Some(id))]

\* the routing config store after delete_connector: no call touches it
delete_connector_routing(id, store) == store

\* admin.rs 3033-3053: the account row is removed
DeleteConnector(id) ==
    /\ id \in DOMAIN mca_store
    /\ mca_store' = [i \in DOMAIN mca_store \ {id} |-> mca_store[i]]
    /\ config_store' = delete_connector_routing(id, config_store)
    /\ UNCHANGED <<merchant_modified_at, next_mca_id, pc, local, rs_in, rs_out, reg_log, merchant_vars, other_vars>>

-----------------------------------------------------------------------------
(* ConnectorAuthTypeValidation and ConnectorAuthTypeAndMetadataValidation,     *)
(* admin.rs 1210-1634. A secret string is the sequence of its characters.     *)

\* str::trim: leading and trailing whitespace removed
RECURSIVE trim_start(_)
trim_start(s) ==
    IF s # <<>> /\ Head(s) = " " THEN trim_start(Tail(s)) ELSE s

RECURSIVE trim_end(_)
trim_end(s) ==
    IF s # <<>> /\ s[Len(s)] = " " THEN trim_end(SubSeq(s, 1, Len(s) - 1)) ELSE s

trim(s) == trim_end(trim_start(s))

\* a closure that tests is_empty() without trimming
validate_non_empty_field_untrimmed(field_value, field_name) ==
    IF field_value = <<>>
    THEN Err("InvalidDataFormat: connector_account_details." \o field_name)
    ELSE Ok(TRUE)

\* admin.rs 1557-1568
validate_non_empty_field(field_value, field_name) ==
    IF trim(field_value) = <<>>
    THEN Err("InvalidDataFormat: connector_account_details." \o field_name)
    ELSE Ok(TRUE)

\* the first failing check of a chain of `?`
FirstErr(results) ==
    IF \E i \in 1..Len(results) : ~results[i].ok
    THEN results[CHOOSE i \in 1..Len(results) :
                    ~results[i].ok /\ \A j \in 1..(i - 1) : results[j].ok]
    ELSE Ok(TRUE)

\* admin.rs 1553-1634; a certificate pair is given by whether
\* create_identity_from_certificate_and_key accepts it
validate_connector_auth_type(auth_type) ==
    CASE auth_type.variant = "TemporaryAuth" -> Ok(TRUE)
      [] auth_type.variant = "HeaderKey" ->
            validate_non_empty_field(auth_type.api_key, "api_key")
      [] auth_type.variant = "BodyKey" ->
            FirstErr(<<validate_non_empty_field(auth_type.api_key, "api_key"),
                       validate_non_empty_field(auth_type.key1, "key1")>>)
      [] auth_type.variant = "SignatureKey" ->
            FirstErr(<<validate_non_empty_field(auth_type.api_key, "api_key"),
                       validate_non_empty_field(auth_type.key1, "key1"),
                       validate_non_empty_field(auth_type.api_secret, "api_secret")>>)
      [] auth_type.variant = "MultiAuthKey" ->
            FirstErr(<<validate_non_empty_field(auth_type.api_key, "api_key"),
                       validate_non_empty_field(auth_type.key1, "key1"),
                       validate_non_empty_field(auth_type.api_secret, "api_secret"),
                       validate_non_empty_field(auth_type.key2, "key2")>>)
      [] auth_type.variant = "CurrencyAuthKey" ->
            IF auth_type.auth_key_map = {}
            THEN Err("InvalidDataFormat: connector_account_details.auth_key_map")
            ELSE Ok(TRUE)
      [] auth_type.variant = "CertificateAuth" ->
            IF ~auth_type.identity_ok
            THEN Err("InvalidDataFormat: connector_account_details.certificate or connector_account_details.private_key")
            ELSE Ok(TRUE)
      [] auth_type.variant = "NoKey" -> Ok(TRUE)

\* connectors whose arm also converts connector_meta_data (admin.rs 1271-1277)
MetadataConnectors == {"adyen"}

\* the ConnectorError of a transformer's try_from(auth_type) for a variant it
\* does not take, and of a metadata conversion that fails
AuthTypeError == "InvalidConnectorConfig: auth_type"
MetadataError == "InvalidConnectorConfig: connector_meta_data"

\* a dispatch whose arms ignore the result of try_from(auth_type)
validate_auth_and_metadata_type_with_connector_any_variant(self) ==
    IF self.connector_name \in MetadataConnectors /\ ~self.connector_meta_data_ok
    THEN Err(MetadataError)
    ELSE Ok(TRUE)

\* admin.rs 1245-1546: one arm per connector, each `try_from(self.auth_type)?`
validate_auth_and_metadata_type_with_connector(self) ==
    IF self.auth_type.variant \notin connector_auth_variants(self.connector_name)
    THEN Err(AuthTypeError)
    ELSE IF self.connector_name \in MetadataConnectors /\ ~self.connector_meta_data_ok
    THEN Err(MetadataError)
    ELSE Ok(TRUE)

\* admin.rs 1226-1242: every ConnectorError becomes InvalidRequestData
map_connector_error(error) ==
    CASE error = "InvalidConnectorName" ->
            "InvalidRequestData: The connector name is invalid"
      [] error = AuthTypeError -> "InvalidRequestData: The auth_type is invalid"
      [] error = MetadataError -> "InvalidRequestData: The connector_meta_data is invalid"
      [] error = "FailedToObtainAuthType" ->
            "InvalidRequestData: The auth type is invalid for the connector"
      [] OTHER -> "InvalidRequestData: The request body is invalid"

\* admin.rs 1216-1243 on the struct of 1210-1214
ConnectorAuthTypeAndMetadataValidation_validate(self) ==
    LET generic == validate_connector_auth_type(self.auth_type)
        with_connector == validate_auth_and_metadata_type_with_connector(self)
    IN  IF ~generic.ok THEN generic
        ELSE IF ~with_connector.ok THEN Err(map_connector_error(with_connector.error))
        ELSE Ok(TRUE)

\* secrets: empty, blank, and a key with a leading blank
SecretValues == {<<>>, <<" ">>, <<" ", "k">>}

\* types::ConnectorAuthType payloads
AuthPayloads ==
    [variant : {"TemporaryAuth", "NoKey"}]
    \cup [variant : {"HeaderKey"}, api_key : SecretValues]
    \cup [variant : {"BodyKey"}, api_key : SecretValues, key1 : SecretValues]
    \cup [variant : {"SignatureKey"}, api_key : SecretValues, key1 : SecretValues,
          api_secret : SecretValues]
    \cup [variant : {"MultiAuthKey"}, api_key : SecretValues, key1 : SecretValues,
          api_secret : SecretValues, key2 : SecretValues]
    \cup [variant : {"CurrencyAuthKey"}, auth_key_map : {{}, {"USD"}}]
    \cup [variant : {"CertificateAuth"}, identity_ok : BOOLEAN]

\* the connectors of the model's arms
ValidatedConnectors == {"stripe", "paypal", "adyen", "plaid", "threedsecureio", "signifyd"}

\* validate_connector_auth_type called on its own
ValidateConnectorAuthTypeCall(auth_type) ==
    /\ call_in = NoCall
    /\ call_in' = [fn |-> "validate_connector_auth_type", auth_type |-> auth_type]
    /\ call_out' = validate_connector_auth_type(auth_type)
    /\ UNCHANGED <<lifecycle_vars, rs_in, rs_out, reg_log, merchant_vars, external_calls,
                   routing_update_vars>>

\* validate_auth_and_metadata_type called as the create and update bridges do
ValidateAuthAndMetadataTypeCall(connector_name, auth_type, connector_meta_data_ok) ==
    /\ call_in = NoCall
    /\ call_in' = [fn |-> "validate_auth_and_metadata_type",
                   connector_name |-> connector_name,
                   auth_type |-> auth_type,
                   connector_meta_data_ok |-> connector_meta_data_ok]
    /\ call_out' = ConnectorAuthTypeAndMetadataValidation_validate(
                       [connector_name |-> connector_name,
                        auth_type |-> auth_type,
                        connector_meta_data_ok |-> connector_meta_data_ok])
    /\ UNCHANGED <<lifecycle_vars, rs_in, rs_out, reg_log, merchant_vars, external_calls,
                   routing_update_vars>>

-----------------------------------------------------------------------------
(* validate_bank_account_data and process_open_banking_connectors,           *)
(* admin.rs 4232-4393. A string is the sequence of its characters.          *)

IBAN_MAX_LENGTH == 34
BACS_SORT_CODE_LENGTH == 6
BACS_MAX_ACCOUNT_NUMBER_LENGTH == 8

AsciiUppercase ==
    <<"A", "B", "C", "D", "E", "F", "G", "H", "I", "J", "K", "L", "M",
      "N", "O", "P", "Q", "R", "S", "T", "U", "V", "W", "X", "Y", "Z">>

AsciiDigits == <<"0", "1", "2", "3", "4", "5", "6", "7", "8", "9">>

IndexOf(seq, x) == CHOOSE i \in 1..Len(seq) : seq[i] = x

is_ascii_uppercase(c) == \E i \in 1..Len(AsciiUppercase) : AsciiUppercase[i] = c

is_ascii_digit(c) == \E i \in 1..Len(AsciiDigits) : AsciiDigits[i] = c

\* a character outside ASCII, two bytes long in UTF-8
TwoByteChar == "U+00E9"

\* str::len: the number of bytes of the UTF-8 encoding
RECURSIVE str_len(_)
str_len(s) ==
    IF s = <<>> THEN 0
    ELSE (IF Head(s) = TwoByteChar THEN 2 ELSE 1) + str_len(Tail(s))

\* Regex ^[A-Z0-9]*$ (admin.rs 4325)
pattern_is_match(s) ==
    \A i \in 1..Len(s) : is_ascii_uppercase(s[i]) \/ is_ascii_digit(s[i])

\* chars().take(n)
take(s, n) == SubSeq(s, 1, IF n < Len(s) THEN n ELSE Len(s))

\* chars().rev().take(n).rev(): the last n characters
take_last(s, n) == SubSeq(s, (IF n < Len(s) THEN Len(s) - n ELSE 0) + 1, Len(s))

\* admin.rs 4355-4362: a letter becomes the two digits of its rank plus 10, any
\* other character is kept; the result is the sequence of decimal digits
RECURSIVE expand_letters(_)
expand_letters(s) ==
    IF s = <<>> THEN <<>>
    ELSE LET c == Head(s)
             digit == (IndexOf(AsciiUppercase, c) - 1) + 10
         IN  (IF is_ascii_uppercase(c)
              THEN <<digit \div 10, digit % 10>>
              ELSE <<IndexOf(AsciiDigits, c) - 1>>)
             \o expand_letters(Tail(s))

\* the decimal digits of u128::MAX = 2^128 - 1
U128_MAX_DIGITS ==
    <<3, 4, 0, 2, 8, 2, 3, 6, 6, 9, 2, 0, 9, 3, 8, 4, 6, 3, 4, 6,
      3, 3, 7, 4, 6, 0, 7, 4, 3, 1, 7, 6, 8, 2, 1, 1, 4, 5, 5>>

RECURSIVE strip_leading_zeros(_)
strip_leading_zeros(digits) ==
    IF digits # <<>> /\ Head(digits) = 0 THEN strip_leading_zeros(Tail(digits)) ELSE digits

\* a <= b for digit sequences of the same length
RECURSIVE digits_le(_, _)
digits_le(a, b) ==
    IF a = <<>> THEN TRUE
    ELSE IF Head(a) # Head(b) THEN Head(a) < Head(b)
    ELSE digits_le(Tail(a), Tail(b))

\* the value of the digits fits 128 bits
fits_u128(digits) ==
    LET d == strip_leading_zeros(digits)
    IN  \/ Len(d) < Len(U128_MAX_DIGITS)
        \/ Len(d) = Len(U128_MAX_DIGITS) /\ digits_le(d, U128_MAX_DIGITS)

\* str::parse::<u128> (admin.rs 4364-4367): an empty string and a value above
\* u128::MAX are errors; the value is kept as its digits
parse_u128(digits) ==
    IF digits = <<>> \/ ~fits_u128(digits)
    THEN Err("InternalServerError: failed to validate IBAN")
    ELSE Ok(digits)

\* num % 97, digit by digit
RECURSIVE rem_97(_, _)
rem_97(digits, acc) ==
    IF digits = <<>> THEN acc
    ELSE rem_97(Tail(digits), (acc * 10 + Head(digits)) % 97)

\* admin.rs 4338-4376 with the number of characters kept by take(len - 4)
iban_mod_check(iban, kept) ==
    LET num == parse_u128(expand_letters(take_last(iban, kept)))
    IN  IF ~num.ok THEN num
        ELSE IF rem_97(num.value, 0) # 1
        THEN Err("InvalidRequestData: Invalid IBAN")
        ELSE Ok(TRUE)

\* a check that accepts a sort code shorter than BACS_SORT_CODE_LENGTH
validate_bacs_short_sort_code(account_number, sort_code) ==
    IF str_len(account_number) > BACS_MAX_ACCOUNT_NUMBER_LENGTH
       \/ str_len(sort_code) > BACS_SORT_CODE_LENGTH
    THEN Err("InvalidRequestData: Invalid BACS numbers")
    ELSE Ok(TRUE)

\* admin.rs 4377-4392
validate_bacs(account_number, sort_code) ==
    IF str_len(account_number) > BACS_MAX_ACCOUNT_NUMBER_LENGTH
       \/ str_len(sort_code) # BACS_SORT_CODE_LENGTH
    THEN Err("InvalidRequestData: Invalid BACS numbers")
    ELSE Ok(TRUE)

\* admin.rs 4315-4393: the set of results the builds can produce. len - 4 is a
\* usize subtraction (4340-4345): below zero it panics when overflow checks are
\* compiled in and wraps otherwise, and take() of the wrapped value keeps the
\* whole string.
validate_bank_account_data(data) ==
    IF data.kind = "Iban"
    THEN IF str_len(data.iban) > IBAN_MAX_LENGTH
         THEN {Err("InvalidRequestData: IBAN length must be up to 34 characters")}
         ELSE IF ~pattern_is_match(data.iban)
         THEN {Err("InvalidRequestData: IBAN data must be alphanumeric")}
         ELSE LET iban == data.iban \o take(data.iban, 4)
                  len == Len(iban)
              IN  IF len < 4
                  THEN {Err("panic: attempt to subtract with overflow"),
                        iban_mod_check(iban, len)}
                  ELSE {iban_mod_check(iban, len - 4)}
    ELSE {validate_bacs(data.account_number, data.sort_code)}

\* a resolver that creates the recipient before it validates the account data
process_open_banking_connectors_calls_first(connector_type, connector, merchant_data, connector_list, recipient_id) ==
    LET recipient_creation_not_supported == connector \in connector_list
        call == IF recipient_creation_not_supported
                THEN "locker_recipient_create_call"
                ELSE "connector_recipient_create_call"
    IN  IF connector_type # "PaymentProcessor"
        THEN {[calls |-> <<>>,
               result |-> Err("InvalidConnectorConfiguration: OpenBanking connector for Payment Initiation should be a payment processor")]}
        ELSE IF merchant_data.kind \notin {"Iban", "Bacs"}
        THEN {[calls |-> <<>>, result |-> Ok(merchant_data)]}
        ELSE {[calls |-> <<call>>,
               result |-> IF ~recipient_id.ok THEN recipient_id
                          ELSE IF ~validated.ok THEN validated
                          ELSE Ok([merchant_data EXCEPT !.connector_recipient_id =
                                     Some([kind |-> IF recipient_creation_not_supported
                                                    THEN "LockerId" ELSE "ConnectorId",
                                           id |-> recipient_id.value])])] :
              validated \in validate_bank_account_data(merchant_data)}

\* admin.rs 4232-4313: the calls issued and the result, for each result of the
\* validation; connector_list is the configured locker-based connector list and
\* recipient_id the answer of the recipient creation
process_open_banking_connectors(connector_type, connector, merchant_data, connector_list, recipient_id) ==
    LET recipient_creation_not_supported == connector \in connector_list
        call == IF recipient_creation_not_supported
                THEN "locker_recipient_create_call"
                ELSE "connector_recipient_create_call"
    IN  IF connector_type # "PaymentProcessor"
        THEN {[calls |-> <<>>,
               result |-> Err("InvalidConnectorConfiguration: OpenBanking connector for Payment Initiation should be a payment processor")]}
        ELSE IF merchant_data.kind \notin {"Iban", "Bacs"}
        THEN {[calls |-> <<>>, result |-> Ok(merchant_data)]}
        ELSE {IF ~validated.ok THEN [calls |-> <<>>, result |-> validated]
              ELSE [calls |-> <<call>>,
                    result |-> IF ~recipient_id.ok THEN recipient_id
                               ELSE Ok([merchant_data EXCEPT !.connector_recipient_id =
                                          Some([kind |-> IF recipient_creation_not_supported
                                                         THEN "LockerId" ELSE "ConnectorId",
                                                id |-> recipient_id.value])])] :
              validated \in validate_bank_account_data(merchant_data)}

\* validate_bank_account_data called on its own
ValidateBankAccountDataCall(data) ==
    /\ call_in = NoCall
    /\ call_in' = [fn |-> "validate_bank_account_data", data |-> data]
    /\ call_out' \in validate_bank_account_data(data)
    /\ UNCHANGED <<lifecycle_vars, rs_in, rs_out, reg_log, merchant_vars, external_calls,
                   routing_update_vars>>

ProcessOpenBankingConnectors(connector_type, connector, merchant_data, connector_list, recipient_id) ==
    /\ call_in = NoCall
    /\ call_in' = [fn |-> "process_open_banking_connectors",
                   connector_type |-> connector_type,
                   connector |-> connector,
                   data |-> merchant_data,
                   connector_list |-> connector_list,
                   recipient_id |-> recipient_id]
    /\ \E outcome \in process_open_banking_connectors(connector_type, connector,
                            merchant_data, connector_list, recipient_id) :
           /\ external_calls' = external_calls \o outcome.calls
           /\ call_out' = outcome.result
    /\ UNCHANGED <<lifecycle_vars, rs_in, rs_out, reg_log, merchant_vars, routing_update_vars>>

\* IBANs: every string of at most four characters over 0, 1 and A, and longer ones
ShortIbans == UNION {[1..n -> {"0", "1", "A"}] : n \in 0..4}

ValidIban ==
    <<"G", "B", "8", "2", "W", "E", "S", "T", "1", "2", "3", "4", "5", "6", "9", "8", "7", "6", "5", "4", "3", "2">>

WrongChecksumIban ==
    <<"G", "B", "8", "2", "W", "E", "S", "T", "1", "2", "3", "4", "5", "6", "9", "8", "7", "6", "5", "4", "3">>

LowercaseIban ==
    <<"g", "b", "8", "2", "w", "e", "s", "t", "1", "2", "3", "4", "5", "6", "9", "8", "7", "6", "5", "4", "3", "2">>

TooLongIban ==
    <<"G", "B", "8", "2", "W", "E", "S", "T", "1", "2", "3", "4", "5", "6", "9", "8", "7", "6", "5", "4", "3", "2", "0", "0", "0", "0", "0", "0", "0", "0", "0", "0", "0", "0", "0">>

\* a valid IBAN of 31 characters with 14 letters
LongValidIban ==
    <<"M", "T", "8", "4", "M", "A", "L", "T", "0", "1", "1", "0", "0", "0", "0", "1", "2", "3", "4", "5", "M", "T", "L", "C", "A", "S", "T", "0", "0", "1", "S">>

IbanInputs ==
    ShortIbans \cup {ValidIban, WrongChecksumIban, LowercaseIban, TooLongIban,
                     LongValidIban, <<"G", "B">>, <<TwoByteChar>>}

\* a string of n digits
Ones(n) == [i \in 1..n |-> "1"]

AccountNumberInputs == {Ones(n) : n \in 0..9} \cup {Ones(7) \o <<TwoByteChar>>}

SortCodeInputs ==
    {Ones(n) : n \in 0..7} \cup {Ones(5) \o <<TwoByteChar>>, Ones(4) \o <<TwoByteChar>>}

\* types::MerchantAccountData of a request: no recipient id yet
MerchantAccountDataInputs ==
    [kind : {"Iban"}, iban : IbanInputs, connector_recipient_id : {None}]
    \cup [kind : {"Bacs"}, account_number : AccountNumberInputs,
          sort_code : SortCodeInputs, connector_recipient_id : {None}]

\* types::MerchantRecipientData: account data, or a recipient id given directly
MerchantRecipientDataInputs ==
    MerchantAccountDataInputs \cup [kind : {"ConnectorRecipientId", "WalletId"}]

RecipientIdResults == {Ok("recipient_1"), Err("InternalServerError: failed to get recipient_id")}

-----------------------------------------------------------------------------
(* BusinessProfileWrapper, admin.rs 3975-4034 *)

\* algorithm ids a caller activates
AlgorithmIds == {"algo_1", "algo_2"}

\* profiles whose routing algorithm is updated
RoutedProfiles == {"P1", "P2"}

\* admin.rs 3979-3990: "routing_config_{merchant_id}_{profile_id}"
get_routing_config_cache_key(profile_id) ==
    <<"routing_config", business_profiles[profile_id].merchant_id, profile_id>>

\* admin.rs 4003-4012
RoutingAlgorithmUpdate(algorithm_id, transaction_type) ==
    IF transaction_type = "Payment"
    THEN [routing_algorithm_id |-> Some(algorithm_id), payout_routing_algorithm_id |-> None]
    ELSE [routing_algorithm_id |-> None, payout_routing_algorithm_id |-> Some(algorithm_id)]

\* the store applies BusinessProfileUpdate::RoutingAlgorithmUpdate: an absent
\* field keeps the stored value
apply_routing_algorithm_update(profile, update) ==
    [routing_algorithm_id |->
        IF IsSome(update.routing_algorithm_id)
        THEN update.routing_algorithm_id ELSE profile.routing_algorithm_id,
     payout_routing_algorithm_id |->
        IF IsSome(update.payout_routing_algorithm_id)
        THEN update.payout_routing_algorithm_id ELSE profile.payout_routing_algorithm_id]

IdleRoutingUpdate ==
    [pc |-> "idle", profile_id |-> "P1", algorithm_id |-> "algo_1",
     transaction_type |-> "Payment", result |-> None]

\* admin.rs 3992-4012: the call starts; the cache key is computed first
RoutingUpdateStart(profile_id, algorithm_id, transaction_type) ==
    /\ routing_update.pc = "idle"
    /\ Len(redact_channel) < MaxCalls
    /\ routing_update' = [pc |-> "update_business_profile",
                          profile_id |-> profile_id,
                          algorithm_id |-> algorithm_id,
                          transaction_type |-> transaction_type,
                          result |-> None]
    /\ UNCHANGED <<profile_routing, redact_channel>>
    /\ UNCHANGED <<lifecycle_vars, rs_in, rs_out, reg_log, merchant_vars, validator_vars,
                   external_calls>>

\* an update step that returns without going on to the publish
routing_update_after_profile_update_returns(self) ==
    [self EXCEPT !.pc = "done", !.result = Some("Ok")]

\* admin.rs 4016-4024: after the profile update the call goes on to the publish
routing_update_after_profile_update(self) ==
    [self EXCEPT !.pc = "publish_into_redact_channel"]

\* admin.rs 4016-4024: update_business_profile_by_profile_id succeeds
RoutingUpdateProfile ==
    /\ routing_update.pc = "update_business_profile"
    /\ profile_routing' =
          [profile_routing EXCEPT ![routing_update.profile_id] =
              apply_routing_algorithm_update(@,
                  RoutingAlgorithmUpdate(routing_update.algorithm_id,
                                         routing_update.transaction_type))]
    /\ routing_update' = routing_update_after_profile_update(routing_update)
    /\ UNCHANGED redact_channel
    /\ UNCHANGED <<lifecycle_vars, rs_in, rs_out, reg_log, merchant_vars, validator_vars,
                   external_calls>>

\* admin.rs 4016-4024: update_business_profile_by_profile_id fails, `?` returns
RoutingUpdateProfileFails ==
    /\ routing_update.pc = "update_business_profile"
    /\ routing_update' =
          [routing_update EXCEPT
              !.pc = "done",
              !.result = Some("InternalServerError: Failed to update routing algorithm ref in business profile")]
    /\ UNCHANGED <<profile_routing, redact_channel>>
    /\ UNCHANGED <<lifecycle_vars, rs_in, rs_out, reg_log, merchant_vars, validator_vars,
                   external_calls>>

\* admin.rs 4026-4033: publish_into_redact_channel succeeds, Ok(()) is returned
RoutingPublish ==
    /\ routing_update.pc = "publish_into_redact_channel"
    /\ redact_channel' =
          Append(redact_channel, get_routing_config_cache_key(routing_update.profile_id))
    /\ routing_update' = [routing_update EXCEPT !.pc = "done", !.result = Some("Ok")]
    /\ UNCHANGED profile_routing
    /\ UNCHANGED <<lifecycle_vars, rs_in, rs_out, reg_log, merchant_vars, validator_vars,
                   external_calls>>

\* admin.rs 4026-4032: publish_into_redact_channel fails, `?` returns
RoutingPublishFails ==
    /\ routing_update.pc = "publish_into_redact_channel"
    /\ routing_update' =
          [routing_update EXCEPT
              !.pc = "done",
              !.result = Some("InternalServerError: Failed to invalidate routing cache")]
    /\ UNCHANGED <<profile_routing, redact_channel>>
    /\ UNCHANGED <<lifecycle_vars, rs_in, rs_out, reg_log, merchant_vars, validator_vars,
                   external_calls>>

\* the result is returned to the caller
RoutingUpdateReturn ==
    /\ routing_update.pc = "done"
    /\ routing_update' = IdleRoutingUpdate
    /\ UNCHANGED <<profile_routing, redact_channel>>
    /\ UNCHANGED <<lifecycle_vars, rs_in, rs_out, reg_log, merchant_vars, validator_vars,
                   external_calls>>

-----------------------------------------------------------------------------
(* Merchant accounts and business profiles *)

MerchantIds == {"M1", "M2"}

MerchantStorageScheme == {"PostgresOnly", "RedisKv"}

\* api PrimaryBusinessDetails entries
PrimaryBusinessDetails ==
    {[country |-> "US", business |-> "food"], [country |-> "DE", business |-> "toys"]}

\* admin.rs 596, 790: format!("{}_{}", country, business)
format_profile_name(business_details) ==
    IF business_details.country = "US" /\ business_details.business = "food"
    THEN "US_food"
    ELSE "DE_toys"

\* the tables a handler reads and writes, passed through its store calls
Db ==
    [merchants |-> merchant_account_store,
     key_stores |-> merchant_key_store,
     profiles |-> business_profile_store,
     next_id |-> next_generated_id,
     organizations |-> organization_store]

\* a handler's outcome: the tables it leaves and the result it returns
Outcome(db, result) == [db |-> db, result |-> result]

\* the store's uniqueness constraint on (merchant id, profile name)
insert_business_profile(profiles, profile) ==
    IF \E id \in DOMAIN profiles :
           /\ profiles[id].merchant_id = profile.merchant_id
           /\ profiles[id].profile_name = profile.profile_name
    THEN Err("GenericDuplicateError")
    ELSE Ok(profiles @@ (profile.profile_id :> profile))

\* admin::create_business_profile_from_merchant_account and admin.rs 3361-3363:
\* a generated profile id, and the name "default" when the request gives none
business_profile_from_request(profile_name, merchant, new_id) ==
    [profile_id |-> new_id,
     merchant_id |-> merchant,
     profile_name |-> IF IsSome(profile_name) THEN Unwrap(profile_name) ELSE "default",
     is_connector_agnostic_mit_enabled |-> None,
     is_extended_card_info_enabled |-> None]

\* admin.rs 3277-3303; the identifier of a refused profile is dropped, so only
\* the identifiers that reach the store are counted
create_and_insert_business_profile(db, profile_name, merchant) ==
    LET new_id == db.next_id + 1
        inserted == insert_business_profile(
                        db.profiles, business_profile_from_request(profile_name, merchant, new_id))
    IN  IF inserted.ok
        THEN Outcome([db EXCEPT !.next_id = new_id, !.profiles = inserted.value], Ok(new_id))
        ELSE Outcome(db, inserted)

\* admin.rs 582-619: the fold over the entries from the i-th on; profiles_created
\* is the vector of the profiles inserted so far, a failed insert is dropped
RECURSIVE create_business_profiles_for_each_business_details_aborts(_, _, _, _, _)
create_business_profiles_for_each_business_details_aborts(db, merchant, details, i, profiles_created) ==
    IF i > Len(details)
    THEN Outcome(db, Ok(profiles_created))
    ELSE LET created == create_and_insert_business_profile(
                            db, Some(format_profile_name(details[i])), merchant)
         IN  IF ~created.result.ok
             THEN Outcome(db, Ok(profiles_created))
             ELSE create_business_profiles_for_each_business_details_aborts(
                      created.db, merchant, details, i + 1,
                      Append(profiles_created, created.result.value))

RECURSIVE create_business_profiles_for_each_business_details(_, _, _, _, _)
create_business_profiles_for_each_business_details(db, merchant, details, i, profiles_created) ==
    IF i > Len(details)
    THEN Outcome(db, Ok(profiles_created))
    ELSE LET created == create_and_insert_business_profile(
                            db, Some(format_profile_name(details[i])), merchant)
         IN  create_business_profiles_for_each_business_details(
                 created.db, merchant, details, i + 1,
                 IF created.result.ok
                 THEN Append(profiles_created, created.result.value)
                 ELSE profiles_created)

CreateBusinessProfile_new_ignores_empty(primary_business_details) ==
    IF IsSome(primary_business_details)
    THEN "CreateFromPrimaryBusinessDetails"
    ELSE "CreateDefaultBusinessProfile"

\* admin.rs 513-522
CreateBusinessProfile_new(primary_business_details) ==
    IF IsSome(primary_business_details) /\ Unwrap(primary_business_details) # <<>>
    THEN "CreateFromPrimaryBusinessDetails"
    ELSE "CreateDefaultBusinessProfile"

default_profile_of_created_any(profiles_created) ==
    IF Len(profiles_created) >= 1 THEN Some(profiles_created[1]) ELSE None

\* admin.rs 542-547: the default profile is set only when one profile was inserted
default_profile_of_created(profiles_created) ==
    IF Len(profiles_created) = 1 THEN Some(profiles_created[1]) ELSE None

\* admin.rs 524-559: the result is the default_profile left in the merchant account
create_business_profiles(db, merchant, primary_business_details) ==
    IF CreateBusinessProfile_new(primary_business_details) = "CreateFromPrimaryBusinessDetails"
    THEN LET each == create_business_profiles_for_each_business_details(
                         db, merchant, Unwrap(primary_business_details), 1, <<>>)
         IN  Outcome(each.db, Ok(default_profile_of_created(each.result.value)))
    ELSE LET created == create_and_insert_business_profile(db, None, merchant)
         IN  IF created.result.ok
             THEN Outcome(created.db, Ok(Some(created.result.value)))
             ELSE created

MerchantAccountCreate_storage_scheme_RedisKv == "RedisKv"

\* admin.rs 389
MerchantAccountCreate_storage_scheme == "PostgresOnly"

\* an organization stored before any merchant account is created
ExistingOrganization == <<"org", 0>>

\* the identifier db.insert_organization stores for a new organization: one that
\* no stored organization has
generate_organization_id(organizations) == <<"org", Cardinality(organizations)>>

\* admin.rs 446-484: CreateOrValidateOrganization::new and create_or_validate
CreateOrValidateOrganization_create_or_validate(db, organization_id) ==
    IF IsSome(organization_id)
    THEN IF Unwrap(organization_id) \in db.organizations
         THEN Outcome(db, Ok(Unwrap(organization_id)))
         ELSE Outcome(db, Err("GenericNotFoundError: organization with the given id does not exist"))
    ELSE LET new_organization == generate_organization_id(db.organizations)
         IN  Outcome([db EXCEPT !.organizations = @ \cup {new_organization}],
                     Ok(new_organization))

\* admin.rs 281-419 (create bridge): the publishable key is generated, the
\* organization is created or looked up, the account is built and the business
\* profiles are created
MerchantAccountCreate_create_domain_model_from_request(db, merchant, organization_id, primary_business_details) ==
    LET publishable_key == db.next_id + 1
        organization == CreateOrValidateOrganization_create_or_validate(
                            [db EXCEPT !.next_id = publishable_key], organization_id)
        created == create_business_profiles(organization.db, merchant,
                                            primary_business_details)
    IN  IF ~organization.result.ok
        THEN organization
        ELSE IF ~created.result.ok
        THEN created
        ELSE Outcome(created.db,
                 Ok([publishable_key |-> publishable_key,
                     storage_scheme |-> MerchantAccountCreate_storage_scheme,
                     organization_id |-> organization.result.value,
                     default_profile |-> created.result.value,
                     primary_business_details |->
                         IF IsSome(primary_business_details)
                         THEN Unwrap(primary_business_details) ELSE <<>>]))

\* admin.rs 187-261, mutated: the key store and the account are looked for before
\* the domain model is built
create_merchant_account_checks_first(db, merchant, organization_id, primary_business_details) ==
    LET built == MerchantAccountCreate_create_domain_model_from_request(
                     db, merchant, organization_id, primary_business_details)
    IN  IF merchant \in db.key_stores \/ merchant \in DOMAIN db.merchants
        THEN Outcome(db, Err("DuplicateMerchantAccount"))
        ELSE IF ~built.result.ok
        THEN built
        ELSE Outcome([built.db EXCEPT !.key_stores = @ \cup {merchant},
                                      !.merchants = @ @@ (merchant :> built.result.value)],
                     Ok(merchant))

\* admin.rs 187-261
create_merchant_account(db, merchant, organization_id, primary_business_details) ==
    LET built == MerchantAccountCreate_create_domain_model_from_request(
                     db, merchant, organization_id, primary_business_details)
    IN  IF ~built.result.ok
        THEN built
        ELSE IF merchant \in built.db.key_stores
        THEN Outcome(built.db, Err("DuplicateMerchantAccount"))
        ELSE IF merchant \in DOMAIN built.db.merchants
        THEN Outcome([built.db EXCEPT !.key_stores = @ \cup {merchant}],
                     Err("DuplicateMerchantAccount"))
        ELSE Outcome([built.db EXCEPT !.key_stores = @ \cup {merchant},
                                      !.merchants = @ @@ (merchant :> built.result.value)],
                     Ok(merchant))

\* storage::MerchantAccountUpdate applied to a row: a field the update leaves
\* absent keeps the stored value; modified_at is kept in merchant_modified_at
MerchantAccountUpdate_apply(account, update) ==
    CASE update.variant = "Update" ->
            [account EXCEPT
                !.default_profile = IF IsSome(update.default_profile)
                                    THEN Unwrap(update.default_profile) ELSE @,
                !.primary_business_details =
                    IF IsSome(update.primary_business_details)
                    THEN Unwrap(update.primary_business_details) ELSE @,
                !.publishable_key = IF IsSome(update.publishable_key)
                                    THEN Unwrap(update.publishable_key) ELSE @]
      [] update.variant = "StorageSchemeUpdate" ->
            [account EXCEPT !.storage_scheme = update.storage_scheme]
      [] update.variant = "UnsetDefaultProfile" ->
            [account EXCEPT !.default_profile = None]
      [] update.variant = "ModifiedAtUpdate" -> account

\* db.update_merchant / db.update_specific_fields_in_merchant
update_merchant(db, merchant, update) ==
    IF merchant \notin DOMAIN db.merchants
    THEN Outcome(db, Err("MerchantAccountNotFound"))
    ELSE Outcome([db EXCEPT !.merchants[merchant] = MerchantAccountUpdate_apply(@, update)],
                 Ok(merchant))

\* core_utils::validate_and_get_business_profile for a given profile id
validate_and_get_business_profile(profiles, profile_id, merchant) ==
    IF profile_id \notin DOMAIN profiles
    THEN Err("BusinessProfileNotFound")
    ELSE IF profiles[profile_id].merchant_id # merchant
    THEN Err("AccessForbidden")
    ELSE Ok(profile_id)

\* admin.rs 789-823: the loop over the entries to create from the i-th on;
\* merchant_account is the row read at 769-772
RECURSIVE create_business_profile_from_business_labels_loop(_, _, _, _, _)
create_business_profile_from_business_labels_loop(db, merchant, merchant_account, to_create, i) ==
    IF i > Len(to_create)
    THEN Outcome(db, Ok(TRUE))
    ELSE LET created == create_and_insert_business_profile(
                            db, Some(format_profile_name(to_create[i])), merchant)
             unset == update_merchant(created.db, merchant,
                                      [variant |-> "UnsetDefaultProfile"])
         IN  IF created.result.ok /\ IsSome(merchant_account.default_profile)
             THEN IF ~unset.result.ok
                  THEN unset
                  ELSE create_business_profile_from_business_labels_loop(
                           unset.db, merchant, merchant_account, to_create, i + 1)
             ELSE create_business_profile_from_business_labels_loop(
                      created.db, merchant, merchant_account, to_create, i + 1)

\* admin.rs 761-826
create_business_profile_from_business_labels(db, merchant, new_business_details) ==
    IF merchant \notin DOMAIN db.merchants
    THEN Outcome(db, Err("MerchantAccountNotFound"))
    ELSE LET merchant_account == db.merchants[merchant]
             old_business_details == merchant_account.primary_business_details
             business_profiles_to_create ==
                 SelectSeq(new_business_details,
                           LAMBDA d : ~Contains(old_business_details, d))
         IN  create_business_profile_from_business_labels_loop(
                 db, merchant, merchant_account, business_profiles_to_create, 1)

\* the empty string as the default_profile of an update request
EmptyProfileId == 0

MerchantAccountUpdate_Update_regenerates_key(req, business_profile_id_update) ==
    [variant |-> "Update",
     publishable_key |-> Some(0),
     primary_business_details |-> req.primary_business_details,
     default_profile |-> business_profile_id_update]

\* admin.rs 931-985
MerchantAccountUpdate_Update(req, business_profile_id_update) ==
    [variant |-> "Update",
     publishable_key |-> None,
     primary_business_details |-> req.primary_business_details,
     default_profile |-> business_profile_id_update]

\* admin.rs 845-986 (update bridge)
get_update_merchant_object(db, merchant, req) ==
    LET validated == validate_and_get_business_profile(
                         db.profiles, Unwrap(req.default_profile), merchant)
        business_profile_id_update ==
            IF IsSome(req.default_profile)
            THEN IF Unwrap(req.default_profile) # EmptyProfileId
                 THEN Some(Some(validated.value))
                 ELSE Some(None)
            ELSE None
        labels == create_business_profile_from_business_labels(
                      db, merchant, Unwrap(req.primary_business_details))
    IN  IF /\ IsSome(req.default_profile)
           /\ Unwrap(req.default_profile) # EmptyProfileId
           /\ ~validated.ok
        THEN Outcome(db, validated)
        ELSE Outcome(IF IsSome(req.primary_business_details) THEN labels.db ELSE db,
                     Ok(MerchantAccountUpdate_Update(req, business_profile_id_update)))

\* admin.rs 1053-1090
merchant_account_update(db, merchant, req) ==
    LET object == get_update_merchant_object(db, merchant, req)
    IN  IF merchant \notin db.key_stores
        THEN Outcome(db, Err("MerchantAccountNotFound"))
        ELSE IF ~object.result.ok
        THEN object
        ELSE update_merchant(object.db, merchant, object.result.value)

\* a creation that leaves the merchant's default profile as it is
create_business_profile_keeps_default(db, merchant, profile_name) ==
    LET new_id == db.next_id + 1
        generated == [db EXCEPT !.next_id = new_id]
        inserted == insert_business_profile(
                        db.profiles, business_profile_from_request(profile_name, merchant, new_id))
        stored == [generated EXCEPT !.profiles = inserted.value]
    IN  IF merchant \notin db.key_stores \/ merchant \notin DOMAIN db.merchants
        THEN Outcome(db, Err("MerchantAccountNotFound"))
        ELSE IF ~inserted.ok
        THEN Outcome(db, inserted)
        ELSE Outcome(stored, Ok(new_id))

\* admin.rs 3555-3622
create_business_profile(db, merchant, profile_name) ==
    LET new_id == db.next_id + 1
        generated == [db EXCEPT !.next_id = new_id]
        inserted == insert_business_profile(
                        db.profiles, business_profile_from_request(profile_name, merchant, new_id))
        stored == [generated EXCEPT !.profiles = inserted.value]
        unset == update_merchant(stored, merchant, [variant |-> "UnsetDefaultProfile"])
    IN  IF merchant \notin db.key_stores \/ merchant \notin DOMAIN db.merchants
        THEN Outcome(db, Err("MerchantAccountNotFound"))
        ELSE IF ~inserted.ok
        THEN Outcome(db, inserted)
        ELSE IF IsSome(db.merchants[merchant].default_profile)
        THEN Outcome(unset.db, Ok(new_id))
        ELSE Outcome(stored, Ok(new_id))

\* admin.rs 3682-3696: only the business profile table is written
delete_business_profile(db, profile_id, merchant) ==
    IF profile_id \in DOMAIN db.profiles /\ db.profiles[profile_id].merchant_id = merchant
    THEN Outcome([db EXCEPT !.profiles = [id \in DOMAIN @ \ {profile_id} |-> @[id]]],
                 Ok(TRUE))
    ELSE Outcome(db, Ok(FALSE))

\* domain::BusinessProfileUpdate applied to a stored profile; a field the Update
\* variant leaves None keeps its value
BusinessProfileUpdate_apply(profile, update) ==
    CASE update.variant = "Update" ->
             [profile EXCEPT !.is_connector_agnostic_mit_enabled =
                                 IF IsSome(update.is_connector_agnostic_mit_enabled)
                                 THEN update.is_connector_agnostic_mit_enabled ELSE @]
      [] update.variant = "ExtendedCardInfoUpdate" ->
             [profile EXCEPT !.is_extended_card_info_enabled =
                                 update.is_extended_card_info_enabled]
      [] update.variant = "ConnectorAgnosticMitUpdate" ->
             [profile EXCEPT !.is_connector_agnostic_mit_enabled =
                                 update.is_connector_agnostic_mit_enabled]

\* db.update_business_profile_by_profile_id
update_business_profile_by_profile_id(db, profile_id, update) ==
    IF profile_id \notin DOMAIN db.profiles
    THEN Outcome(db, Err("BusinessProfileNotFound"))
    ELSE Outcome([db EXCEPT !.profiles[profile_id] = BusinessProfileUpdate_apply(@, update)],
                 Ok(profile_id))

\* admin.rs 3905-3959, with the Update object of 3760-3813 for a request that sets
\* at most is_connector_agnostic_mit_enabled
update_business_profile(db, profile_id, merchant, request) ==
    IF merchant \notin db.key_stores
    THEN Outcome(db, Err("MerchantAccountNotFound"))
    ELSE IF profile_id \notin DOMAIN db.profiles
    THEN Outcome(db, Err("BusinessProfileNotFound"))
    ELSE IF db.profiles[profile_id].merchant_id # merchant
    THEN Outcome(db, Err("AccessForbidden"))
    ELSE update_business_profile_by_profile_id(
             db, profile_id,
             [variant |-> "Update",
              is_connector_agnostic_mit_enabled |-> request.is_connector_agnostic_mit_enabled])

\* admin.rs 4113-4161: the profile is read by its id and updated when its setting
\* is unset or differs from the choice
extended_card_info_toggle(db, merchant, profile_id, enabled) ==
    IF merchant \notin db.key_stores
    THEN Outcome(db, Err("MerchantAccountNotFound"))
    ELSE IF profile_id \notin DOMAIN db.profiles
    THEN Outcome(db, Err("BusinessProfileNotFound"))
    ELSE IF db.profiles[profile_id].is_extended_card_info_enabled # Some(enabled)
    THEN update_business_profile_by_profile_id(
             db, profile_id,
             [variant |-> "ExtendedCardInfoUpdate",
              is_extended_card_info_enabled |-> Some(enabled)])
    ELSE Outcome(db, Ok(profile_id))

\* admin.rs 4163-4217
connector_agnostic_mit_toggle(db, merchant, profile_id, enabled) ==
    IF merchant \notin db.key_stores
    THEN Outcome(db, Err("MerchantAccountNotFound"))
    ELSE IF profile_id \notin DOMAIN db.profiles
    THEN Outcome(db, Err("BusinessProfileNotFound"))
    ELSE IF db.profiles[profile_id].merchant_id # merchant
    THEN Outcome(db, Err("AccessForbidden"))
    ELSE IF db.profiles[profile_id].is_connector_agnostic_mit_enabled # Some(enabled)
    THEN update_business_profile_by_profile_id(
             db, profile_id,
             [variant |-> "ConnectorAgnosticMitUpdate",
              is_connector_agnostic_mit_enabled |-> Some(enabled)])
    ELSE Outcome(db, Ok(profile_id))

\* admin.rs 3133-3164, mutated: the arm for a scheme that already matches issues the
\* same update as the other arms
kv_for_merchant_update_always_writes(enable, storage_scheme, is_kv_soft_kill_mode) ==
    IF enable /\ storage_scheme = "PostgresOnly" /\ is_kv_soft_kill_mode
    THEN Err("InvalidRequestData: Kv cannot be enabled when application is in soft_kill_mode")
    ELSE Ok(Some([variant |-> "StorageSchemeUpdate",
                  storage_scheme |-> IF enable THEN "RedisKv" ELSE "PostgresOnly"]))

\* admin.rs 3133-3164: the match on (enable, storage_scheme); the value is the
\* update the arm passes to db.update_merchant, None for the arm that returns the
\* account it read
kv_for_merchant_update(enable, storage_scheme, is_kv_soft_kill_mode) ==
    IF \/ enable /\ storage_scheme = "RedisKv"
       \/ ~enable /\ storage_scheme = "PostgresOnly"
    THEN Ok(None)
    ELSE IF enable
    THEN IF is_kv_soft_kill_mode
         THEN Err("InvalidRequestData: Kv cannot be enabled when application is in soft_kill_mode")
         ELSE Ok(Some([variant |-> "StorageSchemeUpdate", storage_scheme |-> "RedisKv"]))
    ELSE Ok(Some([variant |-> "StorageSchemeUpdate", storage_scheme |-> "PostgresOnly"]))

\* admin.rs 3171-3185: kv_status is read from the account the match returned
ToggleKVResponse(merchant, updated_merchant_account) ==
    [merchant_id |-> merchant,
     kv_enabled |-> updated_merchant_account.storage_scheme = "RedisKv"]

\* admin.rs 3114-3186
kv_for_merchant(db, merchant, enable, is_kv_soft_kill_mode) ==
    IF merchant \notin db.key_stores \/ merchant \notin DOMAIN db.merchants
    THEN Outcome(db, Err("MerchantAccountNotFound"))
    ELSE LET update == kv_for_merchant_update(enable, db.merchants[merchant].storage_scheme,
                                              is_kv_soft_kill_mode)
             updated == IF update.ok /\ IsSome(update.value)
                        THEN update_merchant(db, merchant, update.value[1])
                        ELSE Outcome(db, Ok(merchant))
         IN  IF ~update.ok
             THEN Outcome(db, update)
             ELSE IF ~updated.result.ok
             THEN Outcome(db, Err("InternalServerError"))
             ELSE Outcome(updated.db,
                          Ok(ToggleKVResponse(merchant, updated.db.merchants[merchant])))

\* admin.rs 3133-3164: the number of db.update_merchant calls kv_for_merchant makes
kv_for_merchant_store_writes(db, merchant, enable, is_kv_soft_kill_mode) ==
    IF merchant \notin db.key_stores \/ merchant \notin DOMAIN db.merchants
    THEN 0
    ELSE LET update == kv_for_merchant_update(enable, db.merchants[merchant].storage_scheme,
                                              is_kv_soft_kill_mode)
         IN  IF update.ok /\ IsSome(update.value) THEN 1 ELSE 0

\* admin.rs 3188-3216
toggle_kv_for_all_merchants(db, enable) ==
    LET update == [variant |-> "StorageSchemeUpdate",
                   storage_scheme |-> IF enable THEN "RedisKv" ELSE "PostgresOnly"]
    IN  Outcome([db EXCEPT !.merchants =
                    [m \in DOMAIN @ |-> MerchantAccountUpdate_apply(@[m], update)]],
                Ok(TRUE))

\* admin.rs 1092-1160: the account row and the key store row are deleted
merchant_account_delete(db, merchant) ==
    IF merchant \notin db.key_stores \/ merchant \notin DOMAIN db.merchants
    THEN Outcome(db, Err("MerchantAccountNotFound"))
    ELSE Outcome([db EXCEPT !.merchants = [m \in DOMAIN @ \ {merchant} |-> @[m]],
                            !.key_stores = @ \ {merchant}],
                 Ok(TRUE))

\* admin.rs 2668-2678: the ModifiedAtUpdate create_connector issues
create_connector_modified_at_update(db, merchant) ==
    update_merchant(db, merchant, [variant |-> "ModifiedAtUpdate"])

connector_vars == <<mca_store, config_store, next_mca_id, pc, local, rs_in, rs_out, reg_log>>

\* a handler has run: the tables it leaves are stored and its result is returned
Respond(op, outcome) ==
    /\ outcome.db.next_id <= MaxIds
    /\ merchant_account_store' = outcome.db.merchants
    /\ merchant_key_store' = outcome.db.key_stores
    /\ business_profile_store' = outcome.db.profiles
    /\ next_generated_id' = outcome.db.next_id
    /\ organization_store' = outcome.db.organizations
    /\ response' = [op |-> op, ok |-> outcome.result.ok,
                    error |-> IF outcome.result.ok THEN "" ELSE outcome.result.error]
    /\ UNCHANGED <<connector_vars, other_vars>>

\* create_merchant_account for a request that may name its organization
CreateMerchantAccountInOrganization(merchant, organization_id, primary_business_details) ==
    /\ Respond("create_merchant_account",
               create_merchant_account(Db, merchant, organization_id,
                                       primary_business_details))
    /\ Cardinality(organization_store') <= MaxIds
    /\ UNCHANGED merchant_modified_at

\* create_merchant_account for a request that names the stored organization
CreateMerchantAccount(merchant, primary_business_details) ==
    CreateMerchantAccountInOrganization(merchant, Some(ExistingOrganization),
                                        primary_business_details)

MerchantAccountUpdate(merchant, req) ==
    /\ Respond("merchant_account_update", merchant_account_update(Db, merchant, req))
    /\ UNCHANGED merchant_modified_at

CreateBusinessProfile(merchant, profile_name) ==
    /\ Respond("create_business_profile", create_business_profile(Db, merchant, profile_name))
    /\ UNCHANGED merchant_modified_at

DeleteBusinessProfile(profile_id, merchant) ==
    /\ Respond("delete_business_profile", delete_business_profile(Db, profile_id, merchant))
    /\ UNCHANGED merchant_modified_at

KvForMerchant(merchant, enable, is_kv_soft_kill_mode) ==
    /\ Respond("kv_for_merchant", kv_for_merchant(Db, merchant, enable, is_kv_soft_kill_mode))
    /\ UNCHANGED merchant_modified_at

UpdateBusinessProfile(profile_id, merchant, request) ==
    /\ Respond("update_business_profile",
               update_business_profile(Db, profile_id, merchant, request))
    /\ UNCHANGED merchant_modified_at

ExtendedCardInfoToggle(merchant, profile_id, enabled) ==
    /\ Respond("extended_card_info_toggle",
               extended_card_info_toggle(Db, merchant, profile_id, enabled))
    /\ UNCHANGED merchant_modified_at

ConnectorAgnosticMitToggle(merchant, profile_id, enabled) ==
    /\ Respond("connector_agnostic_mit_toggle",
               connector_agnostic_mit_toggle(Db, merchant, profile_id, enabled))
    /\ UNCHANGED merchant_modified_at

\* kv_for_merchant as a call: the request is kept with the number of
\* db.update_merchant calls it made, the ToggleKVResponse or the error is the result
KvForMerchantCall(merchant, enable, is_kv_soft_kill_mode) ==
    LET outcome == kv_for_merchant(Db, merchant, enable, is_kv_soft_kill_mode)
    IN  /\ merchant_account_store' = outcome.db.merchants
        /\ merchant_key_store' = outcome.db.key_stores
        /\ business_profile_store' = outcome.db.profiles
        /\ next_generated_id' = outcome.db.next_id
        /\ organization_store' = outcome.db.organizations
        /\ call_in' = [fn |-> "kv_for_merchant", merchant_id |-> merchant, enable |-> enable,
                       is_kv_soft_kill_mode |-> is_kv_soft_kill_mode,
                       store_writes |-> kv_for_merchant_store_writes(
                                            Db, merchant, enable, is_kv_soft_kill_mode)]
        /\ call_out' = outcome.result
        /\ UNCHANGED <<response, connector_vars, merchant_modified_at, external_calls,
                       routing_update_vars>>

ToggleKvForAllMerchants(enable) ==
    /\ Respond("toggle_kv_for_all_merchants", toggle_kv_for_all_merchants(Db, enable))
    /\ UNCHANGED merchant_modified_at

MerchantAccountDelete(merchant) ==
    /\ Respond("merchant_account_delete", merchant_account_delete(Db, merchant))
    /\ UNCHANGED merchant_modified_at

\* the ModifiedAtUpdate of a create_connector request that passed its checks
CreateConnectorModifiedAtUpdate(merchant) ==
    /\ merchant_modified_at < MaxTouch
    /\ merchant \in DOMAIN merchant_account_store
    /\ Respond("create_connector", create_connector_modified_at_update(Db, merchant))
    /\ merchant_modified_at' = merchant_modified_at + 1

-----------------------------------------------------------------------------
(* MerchantConnectorAccountCreateBridge::validate_and_get_profile_id on its own,
   admin.rs 2533-2581, with the legacy business_country / business_label lookup *)

\* business profile table of the resolution calls: "PX" belongs to another
\* merchant and carries a name "M1" also uses
ResolutionProfiles ==
    [pid \in {"P1", "P2", "PX"} |->
        [merchant_id |-> IF pid = "PX" THEN "M2" ELSE "M1",
         profile_name |-> IF pid = "P1" THEN "default" ELSE "US_food"]]

ResolutionProfileIds == {"P1", "P2", "PX", "P9"}
BusinessCountries == {"US", "DE"}
BusinessLabels == {"food", "toys"}

\* admin.rs 2562: format!("{business_country}_{business_label}")
profile_name_of(business_country, business_label) ==
    business_country \o "_" \o business_label

\* admin.rs 2563-2573: the lookup by (profile name, merchant id) and its
\* to_not_found_response
find_business_profile_by_profile_name_merchant_id(profiles, profile_name, merchant) ==
    LET found == {pid \in DOMAIN profiles :
                     /\ profiles[pid].profile_name = profile_name
                     /\ profiles[pid].merchant_id = merchant}
    IN  IF found = {}
        THEN Err("BusinessProfileNotFound")
        ELSE Ok(CHOOSE pid \in found : TRUE)

\* a resolution that prefers the merchant's default profile to the request's
MerchantConnectorCreate_validate_and_get_profile_id_default_first(self, merchant_account, profiles, should_validate) ==
    LET chosen == IF IsSome(merchant_account.default_profile)
                  THEN merchant_account.default_profile ELSE self.profile_id
        validated == validate_and_get_business_profile(profiles, Unwrap(chosen),
                                                       merchant_account.merchant_id)
    IN  IF IsSome(chosen)
        THEN IF should_validate /\ ~validated.ok
             THEN validated
             ELSE Ok(Unwrap(chosen))
        ELSE IF IsSome(self.business_country) /\ IsSome(self.business_label)
        THEN find_business_profile_by_profile_name_merchant_id(
                 profiles,
                 profile_name_of(Unwrap(self.business_country), Unwrap(self.business_label)),
                 merchant_account.merchant_id)
        ELSE Err("MissingRequiredField: profile_id or business_country, business_label")

\* admin.rs 2536-2580
MerchantConnectorCreate_validate_and_get_profile_id(self, merchant_account, profiles, should_validate) ==
    LET chosen == IF IsSome(self.profile_id)
                  THEN self.profile_id ELSE merchant_account.default_profile
        validated == validate_and_get_business_profile(profiles, Unwrap(chosen),
                                                       merchant_account.merchant_id)
    IN  IF IsSome(chosen)
        THEN IF should_validate /\ ~validated.ok
             THEN validated
             ELSE Ok(Unwrap(chosen))
        ELSE IF IsSome(self.business_country) /\ IsSome(self.business_label)
        THEN find_business_profile_by_profile_name_merchant_id(
                 profiles,
                 profile_name_of(Unwrap(self.business_country), Unwrap(self.business_label)),
                 merchant_account.merchant_id)
        ELSE Err("MissingRequiredField: profile_id or business_country, business_label")

\* validate_and_get_profile_id called for a request of merchant "M1"
ValidateAndGetProfileIdCall(profile_id, default_profile_id, business_country, business_label, should_validate) ==
    /\ call_in = NoCall
    /\ call_in' = [fn |-> "validate_and_get_profile_id",
                   profile_id |-> profile_id,
                   default_profile |-> default_profile_id,
                   business_country |-> business_country,
                   business_label |-> business_label,
                   should_validate |-> should_validate]
    /\ call_out' = MerchantConnectorCreate_validate_and_get_profile_id(
                       [profile_id |-> profile_id,
                        business_country |-> business_country,
                        business_label |-> business_label],
                       [merchant_id |-> merchant_id, default_profile |-> default_profile_id],
                       ResolutionProfiles, should_validate)
    /\ UNCHANGED <<lifecycle_vars, rs_in, rs_out, reg_log, merchant_vars, external_calls,
                   routing_update_vars>>

-----------------------------------------------------------------------------
(* Specifications *)

EmptyFunction == [x \in {} |-> x]

NoResolverInput ==
    [site |-> "none", status |-> None, disabled |-> None, auth |-> "NoKey",
     mca_status |-> "Active"]

InitLifecycle ==
    /\ mca_store = EmptyFunction
    /\ config_store = [k \in ConfigKeys \X TransactionType |-> <<>>]
    /\ merchant_modified_at = 0
    /\ next_mca_id = 0
    /\ pc = [p \in Procs |-> "idle"]
    /\ local = [p \in Procs |-> IdleLocal]

\* no merchant account and no business profile is stored; one organization was
\* created before
InitMerchant ==
    /\ merchant_account_store = EmptyFunction
    /\ merchant_key_store = {}
    /\ business_profile_store = EmptyFunction
    /\ next_generated_id = 0
    /\ organization_store = {ExistingOrganization}
    /\ response = [op |-> "none", ok |-> TRUE, error |-> ""]

\* no validator has been called
InitValidators ==
    /\ call_in = NoCall
    /\ call_out = Pending
    /\ external_calls = <<>>
    /\ profile_routing = [pid \in RoutedProfiles |->
                             [routing_algorithm_id |-> None,
                              payout_routing_algorithm_id |-> None]]
    /\ redact_channel = <<>>
    /\ routing_update = IdleRoutingUpdate

\* requests served one after the other
Init ==
    /\ InitLifecycle
    /\ InitMerchant
    /\ InitValidators
    /\ rs_in = NoResolverInput
    /\ rs_out = Pending
    /\ reg_log = <<>>

MCAIds == 1..MaxTouch

Next ==
    \/ \E req \in RoutingCreateRequests : AllIdle /\ CreateStart(1, req)
    \/ CreateReadMerchantConfig(1)
    \/ CreateReadProfileConfig(1)
    \/ CreateInsert(1)
    \/ CreateUpdateMerchantLevel(1)
    \/ CreateUpdateProfileLevel(1)
    \/ CreateReturn(1)
    \/ \E id \in MCAIds, req \in RoutingUpdateRequests : AllIdle /\ UpdateConnector(id, req)
    \/ \E id \in MCAIds : AllIdle /\ DeleteConnector(id)

Spec == Init /\ [][Next]_vars

\* requests served one after the other, varying auth, status and disabled
NextStatus ==
    \/ \E req \in StatusCreateRequests : AllIdle /\ CreateStart(1, req)
    \/ CreateReadMerchantConfig(1)
    \/ CreateReadProfileConfig(1)
    \/ CreateInsert(1)
    \/ CreateUpdateMerchantLevel(1)
    \/ CreateUpdateProfileLevel(1)
    \/ CreateReturn(1)
    \/ \E id \in MCAIds, req \in StatusUpdateRequests : AllIdle /\ UpdateConnector(id, req)
    \/ \E id \in MCAIds : AllIdle /\ DeleteConnector(id)

SpecStatus == Init /\ [][NextStatus]_vars

\* two create_connector requests in flight at once, interleaved at every store call
NextConcurrent ==
    \E p \in Procs :
        \/ \E req \in ConcurrentCreateRequests : CreateStart(p, req)
        \/ CreateReadMerchantConfig(p)
        \/ CreateReadProfileConfig(p)
        \/ CreateInsert(p)
        \/ CreateUpdateMerchantLevel(p)
        \/ CreateUpdateProfileLevel(p)
        \/ CreateReturn(p)

SpecConcurrent == Init /\ [][NextConcurrent]_vars

\* create_connector requests served one after the other, with requests failing at
\* every check and a store that may reject a write of a routing list
NextFaults ==
    \/ \E req \in FaultCreateRequests : AllIdle /\ CreateStart(1, req)
    \/ CreateReadMerchantConfig(1)
    \/ CreateReadProfileConfig(1)
    \/ CreateInsert(1)
    \/ CreateUpdateMerchantLevel(1)
    \/ CreateUpdateMerchantLevelFails(1)
    \/ CreateUpdateProfileLevel(1)
    \/ CreateUpdateProfileLevelFails(1)
    \/ CreateReturn(1)

SpecFaults == Init /\ [][NextFaults]_vars

\* the connectors of each capability table and of none, under every connector type
ClassifyConnectors ==
    {"stripe"} \cup PmAuthConnectors \cup AuthenticationConnectors \cup FrmConnectors

ClassifyCreateRequests ==
    CreateRequestsOf(ClassifyConnectors, ConnectorType, {Some("P1")},
                     {"HeaderKey", "BodyKey"}, {None}, {None})

\* get_routable_connector on its own and inside create_connector, with both
\* outcomes of the ModifiedAtUpdate
NextClassify ==
    \/ \E connector_type \in ConnectorType, connector_name \in ClassifyConnectors :
           GetRoutableConnectorCall(connector_type, connector_name)
    \/ \E req \in ClassifyCreateRequests : AllIdle /\ CreateStart(1, req)
    \/ \E req \in ClassifyCreateRequests : AllIdle /\ CreateStartModifiedAtUpdateFails(1, req)
    \/ CreateReadMerchantConfig(1)
    \/ CreateReadProfileConfig(1)
    \/ CreateInsert(1)
    \/ CreateUpdateMerchantLevel(1)
    \/ CreateUpdateProfileLevel(1)
    \/ CreateReturn(1)

SpecClassify == Init /\ [][NextClassify]_vars

\* the two validators on every payload and connector
NextAuthValidation ==
    \/ \E auth_type \in AuthPayloads : ValidateConnectorAuthTypeCall(auth_type)
    \/ \E connector_name \in ValidatedConnectors, auth_type \in AuthPayloads,
          connector_meta_data_ok \in BOOLEAN :
           ValidateAuthAndMetadataTypeCall(connector_name, auth_type, connector_meta_data_ok)

SpecAuthValidation == Init /\ [][NextAuthValidation]_vars

\* the bank account validator and the open-banking resolver on every input
NextOpenBanking ==
    \/ \E data \in MerchantAccountDataInputs : ValidateBankAccountDataCall(data)
    \/ \E connector_type \in ConnectorType, merchant_data \in MerchantRecipientDataInputs,
          connector_list \in {{}, {"plaid"}}, recipient_id \in RecipientIdResults :
           ProcessOpenBankingConnectors(connector_type, "plaid", merchant_data,
                                        connector_list, recipient_id)

SpecOpenBanking == Init /\ [][NextOpenBanking]_vars

\* routing algorithm updates, one at a time, with both outcomes of each store call
NextRoutingUpdate ==
    \/ \E profile_id \in RoutedProfiles, algorithm_id \in AlgorithmIds,
          transaction_type \in TransactionType :
           RoutingUpdateStart(profile_id, algorithm_id, transaction_type)
    \/ RoutingUpdateProfile
    \/ RoutingUpdateProfileFails
    \/ RoutingPublish
    \/ RoutingPublishFails
    \/ RoutingUpdateReturn

SpecRoutingUpdate == Init /\ [][NextRoutingUpdate]_vars

\* lists of primary business details a request carries
BusinessDetailLists ==
    {<<>>} \cup {<<d>> : d \in PrimaryBusinessDetails}
    \cup {<<d, e>> : d \in {[country |-> "US", business |-> "food"]},
                     e \in PrimaryBusinessDetails}
    \cup {<<[country |-> "US", business |-> "food"],
            [country |-> "US", business |-> "food"],
            [country |-> "DE", business |-> "toys"]>>}

\* api::MerchantAccountUpdate: default_profile and primary_business_details
MerchantUpdateRequests ==
    [default_profile : OptionOf({EmptyProfileId} \cup 1..MaxIds),
     primary_business_details : {None}]
    \cup [default_profile : {None},
          primary_business_details : {Some(ds) : ds \in BusinessDetailLists}]

\* profile_name of api::BusinessProfileCreate
ProfileNames == {None, Some("US_food")}

\* merchant and business profile requests served one after the other: every
\* request for merchant "M1", and the creation of a second merchant "M2"
NextMerchant ==
    \/ \E details \in OptionOf(BusinessDetailLists) : CreateMerchantAccount("M1", details)
    \/ CreateMerchantAccount("M2", None)
    \/ \E req \in MerchantUpdateRequests : MerchantAccountUpdate("M1", req)
    \/ \E profile_name \in ProfileNames : CreateBusinessProfile("M1", profile_name)
    \/ \E profile_id \in 1..MaxIds : DeleteBusinessProfile(profile_id, "M1")
    \/ MerchantAccountDelete("M1")

SpecMerchant == Init /\ [][NextMerchant]_vars

\* updates and KV toggles of merchants created without primary business details
KvUpdateRequests ==
    [default_profile : OptionOf({EmptyProfileId} \cup 1..MaxIds),
     primary_business_details : {None, Some(<<>>)}]

NextKv ==
    \/ \E merchant \in MerchantIds :
           \/ CreateMerchantAccount(merchant, None)
           \/ \E req \in KvUpdateRequests : MerchantAccountUpdate(merchant, req)
           \/ \E enable, is_kv_soft_kill_mode \in BOOLEAN :
                  KvForMerchant(merchant, enable, is_kv_soft_kill_mode)
           \/ MerchantAccountDelete(merchant)
           \/ CreateConnectorModifiedAtUpdate(merchant)
    \/ \E enable \in BOOLEAN : ToggleKvForAllMerchants(enable)

SpecKv == Init /\ [][NextKv]_vars

\* validate_status_and_disabled applied to every input combination
InitResolver ==
    /\ InitLifecycle
    /\ InitMerchant
    /\ InitValidators
    /\ rs_in \in ResolverInputs
    /\ rs_out = Pending
    /\ reg_log = <<>>

NextResolver == CreateBridgeResolve \/ UpdateBridgeResolve

SpecResolver == InitResolver /\ [][NextResolver]_vars

\* update_merchant_default_config called directly, each call starting from the
\* lists currently stored
RegisterProfiles == {"P1", "P2"}
RegisterConnectors == {None, Some("stripe")}
RegisterIds == {"mca_a", "mca_b"}

RegisterCall(profile_id, routable_connector, merchant_connector_id, transaction_type) ==
    /\ Len(reg_log) < MaxCalls
    /\ LET self ==
               [routable_connector |-> routable_connector,
                merchant_connector_id |-> merchant_connector_id,
                merchant_id |-> merchant_id,
                default_routing_config |->
                    get_merchant_default_config(config_store, merchant_id, transaction_type),
                default_routing_config_for_profile |->
                    get_merchant_default_config(config_store, profile_id, transaction_type),
                profile_id |-> profile_id,
                transaction_type |-> transaction_type]
       IN  /\ config_store' = update_merchant_default_config(self, config_store)
           /\ reg_log' = Append(reg_log,
                 [routable_connector |-> routable_connector,
                  merchant_connector_id |-> merchant_connector_id,
                  profile_id |-> profile_id,
                  transaction_type |-> transaction_type,
                  writes |-> update_merchant_default_config_writes(self)])
    /\ UNCHANGED <<mca_store, merchant_modified_at, next_mca_id, pc, local, rs_in, rs_out, merchant_vars, other_vars>>

NextRegister ==
    \E profile_id \in RegisterProfiles, routable_connector \in RegisterConnectors,
       merchant_connector_id \in RegisterIds, transaction_type \in TransactionType :
        RegisterCall(profile_id, routable_connector, merchant_connector_id, transaction_type)

SpecRegister == Init /\ [][NextRegister]_vars

\* merchant updates that may carry a default profile together with business labels
DefaultProfileUpdateRequests ==
    [default_profile : OptionOf({EmptyProfileId} \cup 1..MaxIds),
     primary_business_details :
         {None, Some(<<[country |-> "US", business |-> "food"]>>),
          Some(<<[country |-> "US", business |-> "food"],
                 [country |-> "DE", business |-> "toys"]>>)}]

\* one merchant, created with or without business labels, then updated and given
\* further business profiles
NextDefaultProfile ==
    \/ \E details \in {None, Some(<<[country |-> "US", business |-> "food"]>>)} :
           CreateMerchantAccount("M1", details)
    \/ \E req \in DefaultProfileUpdateRequests : MerchantAccountUpdate("M1", req)
    \/ \E profile_name \in ProfileNames : CreateBusinessProfile("M1", profile_name)

SpecDefaultProfile == Init /\ [][NextDefaultProfile]_vars

\* payment-method-auth configs: not deserializable, or the connector account ids
\* it references, in order
PmAuthReferences ==
    [well_formed : {TRUE}, mca_ids : {<<1>>, <<2>>, <<2, 3>>}]
    \cup [well_formed : {FALSE}, mca_ids : {<<>>}]

\* creations of "stripe" accounts with every config, one with metadata that does
\* not deserialize, and of "paypal" accounts without a config
PmAuthCreateRequests ==
    CreateRequestsWith({"M1"}, {"stripe"}, {"PaymentProcessor", "PaymentMethodAuth"},
                       {Some("P1"), Some("P2")}, {"HeaderKey"}, {None}, {None},
                       {None}, OptionOf(PmAuthReferences))
    \cup CreateRequestsWith({"M1"}, {"stripe"}, {"PaymentProcessor"}, {Some("P1")},
                            {"HeaderKey"}, {None}, {None}, {Some("malformed")},
                            {Some([well_formed |-> TRUE, mca_ids |-> <<2, 3>>])})
    \cup CreateRequestsWith({"M1"}, {"paypal"}, {"PaymentProcessor"},
                            {Some("P1"), Some("P2")}, {"BodyKey"}, {None}, {None},
                            {None}, {None})

\* updates with every config, and one that also replaces the auth by a variant
\* "paypal" does not accept
PmAuthUpdateRequests ==
    [connector_type : {"PaymentProcessor", "PaymentMethodAuth"},
     connector_label : {None},
     auth : {None},
     status : {None},
     disabled : {None},
     pm_auth_config : OptionOf(PmAuthReferences)]
    \cup [connector_type : {"PaymentProcessor"},
          connector_label : {None},
          auth : {Some("HeaderKey")},
          status : {None},
          disabled : {None},
          pm_auth_config : {Some([well_formed |-> TRUE, mca_ids |-> <<2, 3>>])}]

\* create_connector and update_connector requests that carry a payment-method-auth
\* config, served one after the other by a store that works
NextPmAuth ==
    \/ \E req \in PmAuthCreateRequests : AllIdle /\ CreateStart(1, req)
    \/ CreateReadMerchantConfig(1)
    \/ CreateReadProfileConfig(1)
    \/ CreateInsert(1)
    \/ CreateUpdateMerchantLevel(1)
    \/ CreateUpdateProfileLevel(1)
    \/ CreateReturn(1)
    \/ \E id \in MCAIds, req \in PmAuthUpdateRequests :
           AllIdle /\ UpdateConnectorRequest(id, req, "none")

SpecPmAuth == Init /\ [][NextPmAuth]_vars

\* creations of a "stripe" and a "paypal" account in one profile
UpdateFaultCreateRequests ==
    CreateRequestsOf({"stripe"}, {"PaymentProcessor"}, {Some("P1")},
                     {"HeaderKey"}, {None}, {None})
    \cup CreateRequestsOf({"paypal"}, {"PaymentProcessor"}, {Some("P1")},
                          {"BodyKey"}, {None}, {None})

\* updates that keep the connector label or set it to "L"
UpdateFaultRequests ==
    [connector_type : {"PaymentProcessor"},
     connector_label : {None, Some("L")},
     auth : {None},
     status : {None},
     disabled : {None},
     pm_auth_config : {None}]

\* create_connector and update_connector requests served one after the other,
\* with every outcome of the update's write
NextUpdate ==
    \/ \E req \in UpdateFaultCreateRequests : AllIdle /\ CreateStart(1, req)
    \/ CreateReadMerchantConfig(1)
    \/ CreateReadProfileConfig(1)
    \/ CreateInsert(1)
    \/ CreateUpdateMerchantLevel(1)
    \/ CreateUpdateProfileLevel(1)
    \/ CreateReturn(1)
    \/ \E id \in MCAIds \cup {MaxTouch + 1}, req \in UpdateFaultRequests,
          fault \in UpdateStoreFaults :
           AllIdle /\ UpdateConnectorRequest(id, req, fault)

SpecUpdate == Init /\ [][NextUpdate]_vars

\* validate_and_get_profile_id on every combination of the request's profile id,
\* the merchant's default profile and the business country and label
NextProfileResolution ==
    \E profile_id, default_profile_id \in OptionOf(ResolutionProfileIds),
       business_country \in OptionOf(BusinessCountries),
       business_label \in OptionOf(BusinessLabels), should_validate \in BOOLEAN :
        ValidateAndGetProfileIdCall(profile_id, default_profile_id, business_country,
                                    business_label, should_validate)

SpecProfileResolution == Init /\ [][NextProfileResolution]_vars

-----------------------------------------------------------------------------
(* Properties *)

\* C1: after any sequence of successful create_connector and update_connector
\* operations no stored merchant connector account is Active while its auth type
\* (the last auth supplied, else the one stored before) is TemporaryAuth.
C1_NoActiveWithTemporaryAuth ==
    \A id \in DOMAIN mca_store :
        ~(mca_store[id].status = "Active" /\ mca_store[id].auth = "TemporaryAuth")

\* a stored account under TemporaryAuth next to an Active one
C1_Witness ==
    /\ pc[1] = "idle"
    /\ \E id \in DOMAIN mca_store :
        /\ mca_store[id].auth = "TemporaryAuth"
        /\ mca_store[id].status = "Inactive"
    /\ \E id \in DOMAIN mca_store :
        /\ mca_store[id].auth # "TemporaryAuth"
        /\ mca_store[id].status = "Active"

\* C2: after any sequence of successful create_connector and update_connector
\* operations every stored account whose status is Inactive has disabled = true.
C2_InactiveIsDisabled ==
    \A id \in DOMAIN mca_store :
        mca_store[id].status = "Inactive" => mca_store[id].disabled = Some(TRUE)

\* an Inactive account that does not use TemporaryAuth
C2_Witness ==
    \E id \in DOMAIN mca_store :
        /\ mca_store[id].status = "Inactive"
        /\ mca_store[id].auth # "TemporaryAuth"
        /\ pc[1] = "idle"

ResolverCalled == rs_out # Pending

\* the current status the call site hands to the resolver
CurrentStatusOfCall ==
    IF rs_in.site = "create" THEN "Active" ELSE rs_in.mca_status

\* the status rules 2-4 of the resolver give, read from the inputs
ExpectedStatus ==
    IF rs_in.status # None THEN rs_in.status[1]
    ELSE IF rs_in.auth = "TemporaryAuth" THEN "Inactive"
    ELSE CurrentStatusOfCall

\* the disabled value rules 6-8 give, read from the inputs
ExpectedDisabled ==
    IF rs_in.disabled # None THEN rs_in.disabled
    ELSE IF ExpectedStatus = "Inactive" THEN <<TRUE>>
    ELSE <<>>

\* C3: validate_status_and_disabled fails whenever the requested status is Active
\* and the auth type is TemporaryAuth, whatever disabled and the current status are.
C3_ActiveTemporaryAuthRejected ==
    (ResolverCalled /\ rs_in.status = <<"Active">> /\ rs_in.auth = "TemporaryAuth")
        => ~rs_out.ok

C3_Witness ==
    /\ ResolverCalled
    /\ rs_in.status = <<"Active">>
    /\ rs_in.auth = "TemporaryAuth"
    /\ rs_in.disabled = <<TRUE>>
    /\ rs_in.site = "update"
    /\ rs_in.mca_status = "Inactive"

\* C4: validate_status_and_disabled fails whenever disabled = false is requested
\* and the resolved status is Inactive, be it requested, derived from TemporaryAuth
\* or inherited from the current status.
C4_EnableWhileInactiveRejected ==
    (/\ ResolverCalled
     /\ rs_in.disabled = <<FALSE>>
     /\ \/ rs_in.status = <<"Inactive">>
        \/ rs_in.status = <<>> /\ rs_in.auth = "TemporaryAuth"
        \/ rs_in.status = <<>> /\ rs_in.auth # "TemporaryAuth"
                               /\ CurrentStatusOfCall = "Inactive")
        => ~rs_out.ok

\* the inherited case: nothing requested but disabled = false, stored status Inactive
C4_Witness ==
    /\ ResolverCalled
    /\ rs_in.disabled = <<FALSE>>
    /\ rs_in.status = <<>>
    /\ rs_in.auth = "HeaderKey"
    /\ rs_in.site = "update"
    /\ rs_in.mca_status = "Inactive"

\* C5: every call that is not rejected returns exactly status = requested status if
\* present, else Inactive under TemporaryAuth, else the current status (Active at
\* create time), and disabled = requested disabled if present, else true if the
\* resolved status is Inactive, else unset.
C5_ResolvedExactly ==
    (ResolverCalled /\ rs_out.ok)
        => rs_out.value = [status |-> ExpectedStatus, disabled |-> ExpectedDisabled]

\* a create-time call with nothing requested under TemporaryAuth
C5_Witness ==
    /\ ResolverCalled
    /\ rs_out.ok
    /\ rs_in.site = "create"
    /\ rs_in.status = <<>>
    /\ rs_in.disabled = <<>>
    /\ rs_in.auth = "TemporaryAuth"
    /\ rs_in.mca_status = "Inactive"

SameRegistration(a, b) ==
    /\ a.routable_connector = b.routable_connector
    /\ a.merchant_connector_id = b.merchant_connector_id
    /\ a.profile_id = b.profile_id
    /\ a.transaction_type = b.transaction_type

LoggedChoice(a) ==
    [choice_kind |-> "FullStruct",
     connector |-> a.routable_connector[1],
     merchant_connector_id |-> <<a.merchant_connector_id>>]

\* C6: registering the same choice twice, each time from the lists currently
\* stored, leaves exactly one occurrence of it in the merchant-level list and in
\* the profile-level list, and the second call writes nothing.
C6_RegisterTwiceIdempotent ==
    \A i, j \in 1..Len(reg_log) :
        (i < j /\ SameRegistration(reg_log[i], reg_log[j])
               /\ reg_log[i].routable_connector # <<>>)
        => /\ reg_log[j].writes = 0
           /\ Count(config_store[<<merchant_id, reg_log[j].transaction_type>>],
                    LoggedChoice(reg_log[j])) = 1
           /\ Count(config_store[<<reg_log[j].profile_id, reg_log[j].transaction_type>>],
                    LoggedChoice(reg_log[j])) = 1

C6_Witness ==
    /\ Len(reg_log) >= 2
    /\ SameRegistration(reg_log[1], reg_log[2])
    /\ reg_log[1].routable_connector # <<>>
    /\ reg_log[1].writes = 2

ChoiceOf(p) ==
    [choice_kind |-> "FullStruct",
     connector |-> local[p].routable_connector[1],
     merchant_connector_id |-> <<local[p].mca[1].merchant_connector_id>>]

Succeeded(p) ==
    /\ pc[p] = "done"
    /\ local[p].result = <<"Ok">>

\* C7: the store has separate reads and writes only, so the merchant-level write
\* of create_connector stores the list the request read earlier plus its choice,
\* whatever the store holds by then; two interleaved requests can therefore both
\* succeed with one choice missing from the stored list (C7_Witness).
C7_WriteUsesEarlierRead ==
    [][\A p \in Procs :
          (/\ pc[p] = "update_merchant_level"
           /\ pc'[p] = "update_profile_level"
           /\ local[p].routable_connector # <<>>
           /\ ~Contains(local[p].default_routing_config, ChoiceOf(p)))
          => config_store'[<<merchant_id, local[p].transaction_type>>]
                = Append(local[p].default_routing_config, ChoiceOf(p))]_vars

\* both requests succeeded and the merchant-level list misses the choice of one
C7_Witness ==
    /\ Succeeded(1) /\ Succeeded(2)
    /\ local[1].routable_connector # <<>> /\ local[2].routable_connector # <<>>
    /\ local[1].transaction_type = local[2].transaction_type
    /\ local[1].mca[1].merchant_connector_id \in DOMAIN mca_store
    /\ local[2].mca[1].merchant_connector_id \in DOMAIN mca_store
    /\ \E p \in Procs :
        ~Contains(config_store[<<merchant_id, local[p].transaction_type>>], ChoiceOf(p))

\* C8: when create_connector succeeds for a connector with a routable identity and
\* no other request runs, its choice is afterwards in the merchant-level and in
\* the profile-level list of the request's transaction type.
C8_CreatedConnectorRegistered ==
    (Succeeded(1) /\ local[1].routable_connector # <<>>)
        => /\ Contains(config_store[<<merchant_id, local[1].transaction_type>>],
                       ChoiceOf(1))
           /\ Contains(config_store[<<local[1].profile_id[1], local[1].transaction_type>>],
                       ChoiceOf(1))

\* the second creation under the same transaction type, in another profile
C8_Witness ==
    /\ Succeeded(1)
    /\ local[1].routable_connector # <<>>
    /\ Len(config_store[<<merchant_id, local[1].transaction_type>>]) = 2
    /\ Len(config_store[<<local[1].profile_id[1], local[1].transaction_type>>]) = 1

\* C9: delete_connector leaves both default routing lists as they are, so the
\* choice of a registered account that is deleted stays in both lists.
C9_DeleteKeepsRoutingLists ==
    [][(\E id \in DOMAIN mca_store : id \notin DOMAIN mca_store')
          => config_store' = config_store]_vars

\* a registered account was deleted and its choice is still in both lists
C9_Witness ==
    \E id \in 1..next_mca_id, t \in TransactionType, pid \in {"P1", "P2"} :
        /\ id \notin DOMAIN mca_store
        /\ \E i \in 1..Len(config_store[<<merchant_id, t>>]) :
              config_store[<<merchant_id, t>>][i].merchant_connector_id = <<id>>
        /\ \E i \in 1..Len(config_store[<<pid, t>>]) :
              config_store[<<pid, t>>][i].merchant_connector_id = <<id>>

OtherTransactionType(t) == IF t = "Payment" THEN "Payout" ELSE "Payment"

\* C10: registering a connector under one transaction type leaves the
\* merchant-level and profile-level lists of the other type unchanged.
C10_OtherTransactionTypeUntouched ==
    [][\A p \in Procs :
          (pc[p] \in {"update_merchant_level", "update_profile_level"} /\ pc'[p] # pc[p])
          => \A k \in ConfigKeys :
                config_store'[<<k, OtherTransactionType(local[p].transaction_type)>>]
                    = config_store[<<k, OtherTransactionType(local[p].transaction_type)>>]]_vars

\* a Payout registration next to an earlier Payment registration
C10_Witness ==
    /\ Succeeded(1)
    /\ local[1].routable_connector # <<>>
    /\ local[1].transaction_type = "Payout"
    /\ Len(config_store[<<merchant_id, "Payout">>]) = 1
    /\ Len(config_store[<<merchant_id, "Payment">>]) = 1
    /\ Len(config_store[<<local[1].profile_id[1], "Payout">>]) = 1

\* C11: a create_connector request that fails one of the checks made before the
\* first write (connector not enabled, key store or merchant account absent,
\* Apple Pay metadata, profile resolution and ownership, pm_auth_config, profile
\* record, connector type and name) ends with an error and leaves the merchant
\* account, the connector accounts and both routing lists as they were.
C11_EarlyFailureWritesNothing ==
    [][\A req \in FaultCreateRequests :
          (/\ pc[1] = "idle" /\ pc'[1] # "idle"
           /\ ~create_connector_validation(req, mca_store).ok
           /\ CreateStart(1, req))
          => /\ pc'[1] = "done"
             /\ local'[1].result =
                    Some(create_connector_validation(req, mca_store).error)
             /\ merchant_modified_at' = merchant_modified_at
             /\ mca_store' = mca_store
             /\ config_store' = config_store]_vars

\* a request for a profile of another merchant was rejected while an account
\* and its routing entries were already stored
C11_Witness ==
    /\ pc[1] = "done"
    /\ local[1].result = Some("AccessForbidden")
    /\ mca_store # EmptyFunction
    /\ \E k \in DOMAIN config_store : config_store[k] # <<>>

\* C12: every create_connector request rejected for a validation reason (auth
\* shape, status/disabled conflict, connector/type mismatch) has written nothing,
\* the merchant account included.
C12_ValidationFailureWritesNothing ==
    [][\A req \in FaultCreateRequests :
          (pc[1] = "idle" /\ pc'[1] = "done" /\ CreateStart(1, req))
          => /\ merchant_modified_at' = merchant_modified_at
             /\ mca_store' = mca_store
             /\ config_store' = config_store]_vars

\* C13: when the insert succeeded and a write of a routing list failed, the
\* request ends with an error, the inserted account is still stored, and its
\* choice is missing from the merchant-level or the profile-level list.
C13_RoutingFailureKeepsAccount ==
    \A p \in Procs :
        (pc[p] = "done" /\ local[p].result = Some("InternalServerError"))
        => LET mca == Unwrap(local[p].mca)
               self == merchant_default_config_update(p)
               choice == routable_connector_choice(self)
           IN  /\ mca.merchant_connector_id \in DOMAIN mca_store
               /\ mca_store[mca.merchant_connector_id] = mca
               /\ \/ ~Contains(get_merchant_default_config(
                                   config_store, self.merchant_id, self.transaction_type),
                                choice)
                  \/ ~Contains(get_merchant_default_config(
                                   config_store, self.profile_id, self.transaction_type),
                                choice)

\* the profile-level write failed after the merchant-level list was written
C13_Witness ==
    /\ pc[1] = "done"
    /\ local[1].result = Some("InternalServerError")
    /\ Contains(get_merchant_default_config(config_store, merchant_id,
                                            local[1].transaction_type),
                routable_connector_choice(merchant_default_config_update(1)))

\* C14: an insert that conflicts on (profile id, connector label) ends the request
\* with DuplicateMerchantConnectorAccount, adds no connector account and leaves
\* both routing lists as they were.
C14_DuplicateWritesNothing ==
    [][\A p \in Procs :
          (/\ pc[p] = "insert"
           /\ IsDuplicate(mca_store, Unwrap(local[p].mca))
           /\ pc'[p] # "insert")
          => /\ pc'[p] = "done"
             /\ local'[p].result = Some("DuplicateMerchantConnectorAccount")
             /\ mca_store' = mca_store
             /\ config_store' = config_store]_vars

\* a second account with the label of a stored one was refused
C14_Witness ==
    /\ pc[1] = "done"
    /\ local[1].result = Some("DuplicateMerchantConnectorAccount")
    /\ Cardinality(DOMAIN mca_store) = 1

\* the business profiles a step inserts
NewProfiles == DOMAIN business_profile_store' \ DOMAIN business_profile_store

\* the profile names stored under a merchant id
StoredNames(profiles, merchant) ==
    {profiles[id].profile_name : id \in {i \in DOMAIN profiles :
                                             profiles[i].merchant_id = merchant}}

\* the profile names of a list of primary business details
NamesOf(details) == {format_profile_name(details[i]) : i \in 1..Len(details)}

Distinct(details) ==
    \A i, j \in 1..Len(details) : details[i] = details[j] => i = j

\* C15: the default_profile of every merchant account, when set, is the id of a
\* stored business profile of that merchant.
C15_DefaultProfileExists ==
    \A m \in DOMAIN merchant_account_store :
        IsSome(merchant_account_store[m].default_profile)
        => LET profile_id == Unwrap(merchant_account_store[m].default_profile)
           IN  /\ profile_id \in DOMAIN business_profile_store
               /\ business_profile_store[profile_id].merchant_id = m

\* C16: a successful create_merchant_account with absent or empty primary
\* business details inserts exactly one business profile, named "default", owned
\* by the merchant, and stores it as the merchant's default_profile.
C16_DefaultProfileCreated ==
    [][\A m \in MerchantIds, details \in {None, Some(<<>>)} :
          (/\ response'.op = "create_merchant_account" /\ response'.ok
           /\ CreateMerchantAccount(m, details))
          => /\ Cardinality(NewProfiles) = 1
             /\ \A id \in NewProfiles :
                    /\ business_profile_store'[id].profile_name = "default"
                    /\ business_profile_store'[id].merchant_id = m
                    /\ merchant_account_store'[m].default_profile = Some(id)]_vars

\* a merchant was created whose default profile is its only profile, named "default"
C16_Witness ==
    /\ response.op = "create_merchant_account"
    /\ response.ok
    /\ \E m \in DOMAIN merchant_account_store :
           /\ merchant_account_store[m].primary_business_details = <<>>
           /\ IsSome(merchant_account_store[m].default_profile)
           /\ StoredNames(business_profile_store, m) = {"default"}

C19_StorageSchemeOnlyByToggle ==
    [][/\ \A m \in DOMAIN merchant_account_store' \ DOMAIN merchant_account_store :
              merchant_account_store'[m].storage_scheme = "PostgresOnly"
       /\ \A m \in DOMAIN merchant_account_store' \cap DOMAIN merchant_account_store :
              merchant_account_store'[m].storage_scheme
                  # merchant_account_store[m].storage_scheme
              => \/ \E enable, is_kv_soft_kill_mode \in BOOLEAN :
                        KvForMerchant(m, enable, is_kv_soft_kill_mode)
                 \/ \E enable \in BOOLEAN : ToggleKvForAllMerchants(enable)]_vars

\* the ModifiedAtUpdate of create_connector ran on a merchant in RedisKv
C19_Witness ==
    /\ response.op = "create_connector"
    /\ response.ok
    /\ \E m \in DOMAIN merchant_account_store :
           merchant_account_store[m].storage_scheme = "RedisKv"

\* C20: the publishable key of a merchant account is the one generated when it
\* was created: no step changes the key of a stored account.
C20_PublishableKeyKept ==
    [][/\ \A m \in DOMAIN merchant_account_store' \ DOMAIN merchant_account_store :
              merchant_account_store'[m].publishable_key = next_generated_id + 1
       /\ \A m \in DOMAIN merchant_account_store' \cap DOMAIN merchant_account_store :
              merchant_account_store'[m].publishable_key
                  = merchant_account_store[m].publishable_key]_vars

\* a merchant_account_update succeeded on a merchant whose KV was enabled before
C20_Witness ==
    /\ response.op = "merchant_account_update"
    /\ response.ok
    /\ \E m \in DOMAIN merchant_account_store :
           /\ merchant_account_store[m].storage_scheme = "RedisKv"
           /\ merchant_account_store[m].default_profile = None

-----------------------------------------------------------------------------
(* update_connector *)

\* C21: update_connector keeps the account's connector name, merchant connector
\* id and profile id, keeps the set of stored accounts, and leaves both default
\* routing lists as they are.
C21_UpdateKeepsIdentity ==
    [][\A id \in MCAIds, req \in RoutingUpdateRequests :
          (id \in DOMAIN mca_store /\ UpdateConnector(id, req))
          => /\ DOMAIN mca_store' = DOMAIN mca_store
             /\ mca_store'[id].connector_name = mca_store[id].connector_name
             /\ mca_store'[id].merchant_connector_id = mca_store[id].merchant_connector_id
             /\ mca_store'[id].profile_id = mca_store[id].profile_id
             /\ \A other \in DOMAIN mca_store \ {id} : mca_store'[other] = mca_store[other]
             /\ config_store' = config_store]_vars

\* an account registered under Payment was updated to a payout processor and
\* still has its name, id and profile, and its choice in the Payment list
C21_Witness ==
    \E id \in DOMAIN mca_store :
        /\ mca_store[id].connector_type = "PayoutProcessor"
        /\ mca_store[id].connector_name = "stripe"
        /\ mca_store[id].merchant_connector_id = id
        /\ Contains(config_store[<<merchant_id, "Payment">>],
                    [choice_kind |-> "FullStruct", connector |-> "stripe",
                     merchant_connector_id |-> Some(id)])
        /\ Contains(config_store[<<mca_store[id].profile_id, "Payment">>],
                    [choice_kind |-> "FullStruct", connector |-> "stripe",
                     merchant_connector_id |-> Some(id)])

-----------------------------------------------------------------------------
(* get_routable_connector *)

\* the last call was get_routable_connector
Classified == call_in.fn = "get_routable_connector"

\* C22: a connector of the payment-method-auth table is rejected unless its type
\* is PaymentMethodAuth or PaymentProcessor, a connector of the authentication
\* table is rejected unless its type is AuthenticationProcessor, a connector of
\* neither table is rejected as an invalid connector name unless it is a member
\* of the routable enumeration; nothing else is rejected.
C22_ClassifierRejections ==
    Classified =>
        LET name == call_in.connector_name
            type == call_in.connector_type
        IN  /\ (name \in PmAuthConnectors
                  /\ type \notin {"PaymentMethodAuth", "PaymentProcessor"})
               => call_out = Err("InvalidRequestData: Invalid connector type given")
            /\ (name \in PmAuthConnectors
                  /\ type \in {"PaymentMethodAuth", "PaymentProcessor"})
               => call_out.ok
            /\ (name \notin PmAuthConnectors /\ name \in AuthenticationConnectors
                  /\ type # "AuthenticationProcessor")
               => call_out = Err("InvalidRequestData: Invalid connector type given")
            /\ (name \notin PmAuthConnectors /\ name \in AuthenticationConnectors
                  /\ type = "AuthenticationProcessor")
               => call_out.ok
            /\ (name \notin PmAuthConnectors \cup AuthenticationConnectors)
               => IF name \in RoutableConnectors
                  THEN call_out.ok
                  ELSE call_out = Err("InvalidRequestData: Invalid connector name given")

\* a payment-method-auth connector was given as an authentication processor and
\* was rejected
C22_Witness ==
    /\ Classified
    /\ call_in.connector_name = "plaid"
    /\ call_in.connector_type = "AuthenticationProcessor"
    /\ ~call_out.ok

\* C23: get_routable_connector returns None exactly for the connectors that have
\* no routable form, returns the resolved identity otherwise, returns None and no
\* error for a fraud-risk-management connector, and create_connector of a
\* fraud-risk-management connector does not fail on the classification.
C23_NoRoutableFormIsNotAnError ==
    [][/\ (Classified' /\ call_out'.ok)
          => (call_out'.value = None <=> call_in'.connector_name \notin RoutableConnectors)
       /\ (Classified' /\ call_out'.ok /\ call_out'.value # None)
          => call_out'.value = Some(call_in'.connector_name)
       /\ (Classified' /\ call_in'.connector_type = "FraudRiskManagement"
             /\ call_in'.connector_name \in FrmConnectors)
          => call_out' = Ok(None)
       /\ \A req \in ClassifyCreateRequests :
             (/\ pc[1] = "idle" /\ pc'[1] = "done"
              /\ req.connector_type = "FraudRiskManagement"
              /\ req.connector_name \in FrmConnectors
              /\ CreateStart(1, req))
             => local'[1].result
                  # Some("InvalidRequestData: Invalid connector name given")]_vars

-----------------------------------------------------------------------------
(* validate_auth_and_metadata_type and validate_connector_auth_type *)

\* the last call was validate_auth_and_metadata_type
AuthAndMetadataValidated == call_in.fn = "validate_auth_and_metadata_type"

\* the payload's variant is not one the connector's transformer takes
WrongVariant ==
    call_in.auth_type.variant \notin connector_auth_variants(call_in.connector_name)

InvalidRequestDataErrors ==
    {"InvalidRequestData: The connector name is invalid",
     "InvalidRequestData: The auth_type is invalid",
     "InvalidRequestData: The connector_meta_data is invalid",
     "InvalidRequestData: The auth type is invalid for the connector",
     "InvalidRequestData: The request body is invalid"}

\* C24 as stated: for every connector a payload of a variant the connector does
\* not expect is answered with an InvalidRequestData error.
C24_WrongVariantIsInvalidRequestData ==
    (AuthAndMetadataValidated /\ WrongVariant)
    => (~call_out.ok /\ call_out.error \in InvalidRequestDataErrors)

\* C24 amended: for every connector a payload of a variant the connector does
\* not expect never succeeds; the error is the InvalidDataFormat of the generic
\* check when the payload fails it, and the connector's error surfaced as
\* InvalidRequestData otherwise.
C24_WrongVariantNeverSucceeds ==
    (AuthAndMetadataValidated /\ WrongVariant)
    => /\ ~call_out.ok
       /\ IF validate_connector_auth_type(call_in.auth_type).ok
          THEN call_out.error \in InvalidRequestDataErrors
          ELSE call_out = validate_connector_auth_type(call_in.auth_type)

\* stripe was given a well-formed BodyKey and answered with InvalidRequestData
C24_Witness ==
    /\ AuthAndMetadataValidated
    /\ call_in.connector_name = "stripe"
    /\ call_in.auth_type = [variant |-> "BodyKey", api_key |-> <<" ", "k">>,
                            key1 |-> <<" ", "k">>]
    /\ call_out = Err("InvalidRequestData: The auth_type is invalid")

\* the last call was validate_connector_auth_type
AuthTypeValidated == call_in.fn = "validate_connector_auth_type"

\* a secret that is empty or all whitespace
Blank(secret) == \A i \in 1..Len(secret) : secret[i] = " "

\* the payload has a blank secret among the string fields of its variant
HasBlankSecret(auth_type) ==
    \E field \in DOMAIN auth_type \cap {"api_key", "key1", "api_secret", "key2"} :
        Blank(auth_type[field])

\* the payload fails for a reason the generic check looks at
GenericFailure(auth_type) ==
    \/ HasBlankSecret(auth_type)
    \/ auth_type.variant = "CurrencyAuthKey" /\ auth_type.auth_key_map = {}
    \/ auth_type.variant = "CertificateAuth" /\ ~auth_type.identity_ok

\* C25: validate_connector_auth_type rejects every payload with a secret string
\* field that is empty after trimming and a CurrencyAuthKey with an empty map,
\* accepts NoKey and TemporaryAuth, and validate_auth_and_metadata_type runs it
\* first: a payload that fails it gets its error whatever the connector is.
C25_GenericCheckFirst ==
    /\ AuthTypeValidated
       => /\ HasBlankSecret(call_in.auth_type) => ~call_out.ok
          /\ (call_in.auth_type.variant = "CurrencyAuthKey"
                /\ call_in.auth_type.auth_key_map = {}) => ~call_out.ok
          /\ call_in.auth_type.variant \in {"NoKey", "TemporaryAuth"} => call_out.ok
          /\ call_out.ok <=> ~GenericFailure(call_in.auth_type)
    /\ (AuthAndMetadataValidated /\ GenericFailure(call_in.auth_type))
       => /\ ~call_out.ok
          /\ call_out.error \notin InvalidRequestDataErrors
          /\ call_out = validate_connector_auth_type(call_in.auth_type)

\* a blank key1 was reported for a connector that does not take the payload's
\* variant either
C25_Witness ==
    /\ AuthAndMetadataValidated
    /\ call_in.connector_name = "stripe"
    /\ call_in.auth_type = [variant |-> "BodyKey", api_key |-> <<" ", "k">>,
                            key1 |-> <<" ">>]
    /\ call_out = Err("InvalidDataFormat: connector_account_details.key1")

-----------------------------------------------------------------------------
(* process_open_banking_connectors and validate_bank_account_data *)

\* the last call was process_open_banking_connectors
OpenBankingProcessed == call_in.fn = "process_open_banking_connectors"

\* the last call was validate_bank_account_data
BankAccountValidated == call_in.fn = "validate_bank_account_data"

\* validate_bank_account_data accepts the data
AccountDataAccepted(data) == validate_bank_account_data(data) = {Ok(TRUE)}

\* C26: process_open_banking_connectors answers a connector type other than
\* PaymentProcessor with a configuration error, and issues a recipient creation
\* (network call or vault write) only for a payment processor whose account data
\* passed validate_bank_account_data: when either check fails no call is made.
C26_ValidatedBeforeAnyCall ==
    OpenBankingProcessed =>
        /\ call_in.connector_type # "PaymentProcessor"
           => /\ call_out = Err("InvalidConnectorConfiguration: OpenBanking connector for Payment Initiation should be a payment processor")
              /\ external_calls = <<>>
        /\ (call_in.data.kind \in {"Iban", "Bacs"} /\ ~AccountDataAccepted(call_in.data))
           => (~call_out.ok /\ external_calls = <<>>)
        /\ external_calls # <<>>
           => /\ call_in.connector_type = "PaymentProcessor"
              /\ call_in.data.kind \in {"Iban", "Bacs"}
              /\ AccountDataAccepted(call_in.data)
              /\ Len(external_calls) = 1

\* a payment processor's IBAN with a wrong checksum was rejected and no
\* recipient creation was issued
C26_Witness ==
    /\ OpenBankingProcessed
    /\ call_in.connector_type = "PaymentProcessor"
    /\ call_in.data.kind = "Iban"
    /\ call_in.data.iban = WrongChecksumIban
    /\ call_in.recipient_id.ok
    /\ call_out = Err("InvalidRequestData: Invalid IBAN")
    /\ external_calls = <<>>

\* the first four characters moved to the end
Rotated(iban) == SubSeq(iban, 5, Len(iban)) \o take(iban, 4)

\* the rotated and expanded IBAN is a number congruent to 1 modulo 97
Mod97IsOne(iban) ==
    /\ expand_letters(Rotated(iban)) # <<>>
    /\ rem_97(expand_letters(Rotated(iban)), 0) = 1

IbanRejections ==
    {Err("InvalidRequestData: IBAN length must be up to 34 characters"),
     Err("InvalidRequestData: IBAN data must be alphanumeric"),
     Err("InvalidRequestData: Invalid IBAN")}

\* C27: an IBAN of at most 34 characters is accepted if and only if all its
\* characters are uppercase alphanumerics and the rotated, expanded number is
\* congruent to 1 modulo 97 at full precision; every rejection is an
\* InvalidRequestData error.
C27_IbanAcceptedIffMod97 ==
    (BankAccountValidated /\ call_in.data.kind = "Iban")
    => /\ Len(call_in.data.iban) <= IBAN_MAX_LENGTH
          => (call_out.ok <=> (/\ pattern_is_match(call_in.data.iban)
                               /\ Mod97IsOne(call_in.data.iban)))
       /\ ~call_out.ok => call_out \in IbanRejections

\* C28 as stated: BACS data is accepted if and only if the account number has
\* at most 8 characters and the sort code has exactly 6 characters.
C28_BacsByCharacters ==
    (BankAccountValidated /\ call_in.data.kind = "Bacs")
    => /\ call_out.ok <=> (/\ Len(call_in.data.account_number) <= BACS_MAX_ACCOUNT_NUMBER_LENGTH
                           /\ Len(call_in.data.sort_code) = BACS_SORT_CODE_LENGTH)
       /\ ~call_out.ok => call_out = Err("InvalidRequestData: Invalid BACS numbers")

\* the number of bytes of a string, counted independently of str_len
Utf8Bytes(s) == Len(s) + Cardinality({i \in 1..Len(s) : s[i] = TwoByteChar})

\* C28 amended: BACS data is accepted if and only if the account number is at
\* most 8 bytes long and the sort code exactly 6 bytes long in UTF-8, which for
\* ASCII values is the number of characters; otherwise the result is an
\* InvalidRequestData error.
C28_BacsByBytes ==
    (BankAccountValidated /\ call_in.data.kind = "Bacs")
    => /\ call_out.ok <=> (/\ Utf8Bytes(call_in.data.account_number) <= BACS_MAX_ACCOUNT_NUMBER_LENGTH
                           /\ Utf8Bytes(call_in.data.sort_code) = BACS_SORT_CODE_LENGTH)
       /\ ~call_out.ok => call_out = Err("InvalidRequestData: Invalid BACS numbers")

\* an account number of 8 digits with a sort code of 6 digits was accepted
C28_Witness ==
    /\ BankAccountValidated
    /\ call_in.data.kind = "Bacs"
    /\ call_in.data.account_number = Ones(8)
    /\ call_in.data.sort_code = Ones(6)
    /\ call_out = Ok(TRUE)

-----------------------------------------------------------------------------
(* update_business_profile_and_invalidate_routing_config_for_active_algorithm_id_update *)

\* the routing cache key of the profile the running call is for
RunningCacheKey ==
    <<"routing_config", business_profiles[routing_update.profile_id].merchant_id,
      routing_update.profile_id>>

\* the stored pointer of the running call's profile and transaction type
RunningPointer(routing) ==
    IF routing_update.transaction_type = "Payment"
    THEN routing[routing_update.profile_id].routing_algorithm_id
    ELSE routing[routing_update.profile_id].payout_routing_algorithm_id

\* C29: once the call has updated the profile's active routing algorithm it goes
\* on to publish the routing cache key of that merchant and profile; the key is
\* published only after the profile update and before the call returns; the call
\* returns Ok only by the step that publishes the key, and returns the
\* invalidation error when the publish fails.
C29_PublishedBeforeReturn ==
    [][/\ profile_routing' # profile_routing
          => /\ routing_update.pc = "update_business_profile"
             /\ routing_update'.pc = "publish_into_redact_channel"
       /\ redact_channel' # redact_channel
          => /\ routing_update.pc = "publish_into_redact_channel"
             /\ redact_channel' = Append(redact_channel, RunningCacheKey)
             /\ RunningPointer(profile_routing) = Some(routing_update.algorithm_id)
             /\ routing_update'.pc = "done"
       /\ (routing_update.pc # "done" /\ routing_update'.pc = "done"
             /\ routing_update'.result = Some("Ok"))
          => redact_channel' = Append(redact_channel, RunningCacheKey)
       /\ (routing_update.pc = "publish_into_redact_channel"
             /\ routing_update'.pc = "done" /\ redact_channel' = redact_channel)
          => routing_update'.result
                = Some("InternalServerError: Failed to invalidate routing cache")
       /\ (routing_update.pc = "publish_into_redact_channel"
             => routing_update'.pc \in {"publish_into_redact_channel", "done"})]_vars

\* a payout algorithm was activated for P2, its key was published last and the
\* call is about to return Ok
C29_Witness ==
    /\ routing_update.pc = "done"
    /\ routing_update.result = Some("Ok")
    /\ routing_update.profile_id = "P2"
    /\ profile_routing["P2"].payout_routing_algorithm_id = Some("algo_2")
    /\ redact_channel # <<>>
    /\ redact_channel[Len(redact_channel)] = <<"routing_config", "M1", "P2">>


IsPrefixOf(old, new) ==
    /\ Len(old) <= Len(new)
    /\ \A i \in 1..Len(old) : new[i] = old[i]

Registered(e, old, new) ==
    IF e.routable_connector = <<>>
    THEN new = old
    ELSE IF Contains(old, LoggedChoice(e))
         THEN new = old
         ELSE new = Append(old, LoggedChoice(e))

ListsLackingChoice(e) ==
    {key \in {merchant_id, e.profile_id} :
        /\ e.routable_connector # <<>>
        /\ ~Contains(config_store[<<key, e.transaction_type>>], LoggedChoice(e))}

\* C30: update_merchant_default_config only appends: every choice already in the
\* merchant-level or the profile-level list keeps its position, a new choice is
\* added at the end, a list that already contains the choice is not written, and
\* no other list is touched.
C30_OnlyAppends ==
    [][Len(reg_log') = Len(reg_log) + 1 =>
        LET e == reg_log'[Len(reg_log')]
        IN  /\ \A key \in DOMAIN config_store :
                /\ IsPrefixOf(config_store[key], config_store'[key])
                /\ IF key \in {<<merchant_id, e.transaction_type>>,
                               <<e.profile_id, e.transaction_type>>}
                   THEN Registered(e, config_store[key], config_store'[key])
                   ELSE config_store'[key] = config_store[key]
            /\ e.writes = Cardinality(ListsLackingChoice(e))]_vars

C30_Witness ==
    /\ Len(reg_log) = 3
    /\ reg_log[1].routable_connector # <<>>
    /\ reg_log[2].routable_connector # <<>>
    /\ reg_log[1].merchant_connector_id # reg_log[2].merchant_connector_id
    /\ reg_log[1].profile_id = reg_log[2].profile_id
    /\ reg_log[1].transaction_type = reg_log[2].transaction_type
    /\ SameRegistration(reg_log[1], reg_log[3])
    /\ reg_log[2].writes = 2
    /\ reg_log[3].writes = 0
    /\ config_store[<<reg_log[1].profile_id, reg_log[1].transaction_type>>]
         = <<LoggedChoice(reg_log[1]), LoggedChoice(reg_log[2])>>

-----------------------------------------------------------------------------
(* create_connector: the ModifiedAtUpdate of the merchant account *)

\* create_connector started with a request that passes the checks of steps 1 to 7
PassesChecks(req) ==
    /\ pc[1] = "idle"
    /\ pc'[1] # "idle"
    /\ create_connector_validation(req, mca_store).ok
    /\ (CreateStart(1, req) \/ CreateStartModifiedAtUpdateFails(1, req))

\* C31: every create_connector request that passes the checks of steps 1 to 7
\* issues the ModifiedAtUpdate of the merchant account, with or without a routable
\* connector: modified_at advances, or the request ends with the
\* InternalServerError of that write; no connector account is stored in that step,
\* and whenever a connector account is stored the ModifiedAtUpdate of its request
\* has already been made.
C31_TouchedBeforePersist ==
    [][/\ \A req \in ClassifyCreateRequests :
             PassesChecks(req)
             => /\ mca_store' = mca_store
                /\ \/ merchant_modified_at' = merchant_modified_at + 1
                   \/ /\ merchant_modified_at' = merchant_modified_at
                      /\ pc'[1] = "done"
                      /\ local'[1].result = Some("InternalServerError")
       /\ \A id \in DOMAIN mca_store' \ DOMAIN mca_store :
             /\ merchant_modified_at' = merchant_modified_at
             /\ merchant_modified_at >= id]_vars

\* a connector without a routable form was stored after the merchant account was
\* touched once
C31_Witness ==
    /\ merchant_modified_at = 1
    /\ 1 \in DOMAIN mca_store
    /\ mca_store[1].connector_name \notin RoutableConnectors

-----------------------------------------------------------------------------
(* validate_and_get_profile_id *)

\* the last call was validate_and_get_profile_id
ProfileResolved == call_in.fn = "validate_and_get_profile_id"

\* the profile is stored and belongs to the requesting merchant
BelongsToMerchant(profile_id) ==
    /\ profile_id \in DOMAIN ResolutionProfiles
    /\ ResolutionProfiles[profile_id].merchant_id = merchant_id

\* the outcome for a profile id taken from the request or from the default
ResolvedById(profile_id) ==
    IF call_in.should_validate /\ ~BelongsToMerchant(profile_id)
    THEN ~call_out.ok /\ call_out.error \in {"BusinessProfileNotFound", "AccessForbidden"}
    ELSE call_out = Ok(profile_id)

\* the outcome of the lookup by business country and label
ResolvedByName ==
    LET name == profile_name_of(call_in.business_country[1], call_in.business_label[1])
    IN  IF \E pid \in DOMAIN ResolutionProfiles :
               BelongsToMerchant(pid) /\ ResolutionProfiles[pid].profile_name = name
        THEN /\ call_out.ok
             /\ BelongsToMerchant(call_out.value)
             /\ ResolutionProfiles[call_out.value].profile_name = name
        ELSE call_out = Err("BusinessProfileNotFound")

\* C32: validate_and_get_profile_id takes the request's profile id, else the
\* merchant's default profile, else the merchant's profile named
\* "{business_country}_{business_label}"; it fails with MissingRequiredField when
\* the request has no profile id, the merchant no default profile and the request
\* not both a country and a label; a profile id of the request or the default is
\* returned only after it was validated to belong to the merchant.
C32_ProfileResolutionOrder ==
    ProfileResolved =>
        IF call_in.profile_id # None THEN ResolvedById(call_in.profile_id[1])
        ELSE IF call_in.default_profile # None THEN ResolvedById(call_in.default_profile[1])
        ELSE IF call_in.business_country # None /\ call_in.business_label # None
        THEN ResolvedByName
        ELSE call_out =
                Err("MissingRequiredField: profile_id or business_country, business_label")

\* the request names one of the merchant's profiles while the merchant's default
\* is another one, and the request's profile is returned
C32_Witness ==
    /\ ProfileResolved
    /\ call_in.should_validate
    /\ call_in.profile_id = Some("P2")
    /\ call_in.default_profile = Some("P1")
    /\ call_out = Ok("P2")

-----------------------------------------------------------------------------
(* payment-method-auth config of create_connector and update_connector *)

\* the request's config is looked at: the connector type is not PaymentMethodAuth
ChecksConfig(req) ==
    /\ req.connector_type # "PaymentMethodAuth"
    /\ req.pm_auth_config # None

\* every referenced id is an account of the merchant in the given profile
ReferencesValid(req, profile_id) ==
    \A i \in 1..Len(req.pm_auth_config[1].mca_ids) :
        LET id == req.pm_auth_config[1].mca_ids[i]
        IN  /\ id \in DOMAIN mca_store
            /\ mca_store[id].merchant_id = merchant_id
            /\ mca_store[id].profile_id = profile_id

PmAuthNotFoundErrors ==
    {"GenericNotFoundError: payment method auth connector account not found",
     "GenericNotFoundError: payment method auth profile_id differs from connector profile_id"}

\* create_connector began with a request whose config is looked at
CreatedWithConfig(req) ==
    /\ pc[1] = "idle"
    /\ pc'[1] # "idle"
    /\ ChecksConfig(req)
    /\ CreateStart(1, req)

\* update_connector was served for a stored account with a request whose config
\* is looked at
UpdatedWithConfig(id, req) ==
    /\ id \in DOMAIN mca_store
    /\ ChecksConfig(req)
    /\ call_in'.fn = "update_connector"
    /\ call_in'.req = req
    /\ call_in'.merchant_connector_id = id
    /\ UpdateConnectorRequest(id, req, "none")

\* the request ended with a not-found error of the config check, nothing written
CreateEndedNotFound ==
    /\ pc'[1] = "done"
    /\ local'[1].result # None
    /\ local'[1].result[1] \in PmAuthNotFoundErrors
    /\ mca_store' = mca_store

UpdateEndedNotFound ==
    /\ ~call_out'.ok
    /\ call_out'.error \in PmAuthNotFoundErrors
    /\ mca_store' = mca_store

\* the checks create_connector makes before the config check (admin.rs 2591-2639)
EarlierCreateChecksPass(req) ==
    /\ validate_dummy_connector_enabled(req.connector_name)
    /\ req.merchant_id \in merchant_key_stores \cap merchant_accounts
    /\ validate_apple_pay_certificates_in_mca_metadata(req.metadata).ok
    /\ validate_and_get_profile_id(req).ok

\* the checks the update bridge makes before the config check (admin.rs 2119-2150)
EarlierUpdateChecksPass(id, req) ==
    LET auth == IF req.auth # None THEN req.auth[1] ELSE mca_store[id].auth
    IN  /\ validate_auth_and_metadata_type(mca_store[id].connector_name, auth)
        /\ validate_status_and_disabled(req.status, req.disabled, auth,
                                        mca_store[id].status).ok

\* C33 as stated: a create or update whose type is not PaymentMethodAuth and whose
\* config references an account that is missing or in another profile is not
\* accepted and always ends with a not-found error, nothing written.
C33_InvalidReferenceIsNotFound ==
    [][/\ \A req \in PmAuthCreateRequests :
             (CreatedWithConfig(req) /\ ~ReferencesValid(req, req.profile_id[1]))
             => CreateEndedNotFound
       /\ \A id \in MCAIds, req \in PmAuthUpdateRequests :
             (UpdatedWithConfig(id, req) /\ ~ReferencesValid(req, mca_store[id].profile_id))
             => UpdateEndedNotFound]_vars

\* C33: a create or update whose type is not PaymentMethodAuth and which carries a
\* config goes on to the write only if every referenced id is an account of the
\* merchant in the connector account's profile; otherwise it ends before the
\* account is written, and with a not-found error whenever the checks made before
\* the config check pass.
C33_InvalidReferenceNeverWritten ==
    [][/\ \A req \in PmAuthCreateRequests :
             (CreatedWithConfig(req) /\ ~ReferencesValid(req, req.profile_id[1]))
             => /\ pc'[1] = "done"
                /\ local'[1].result # Some("Ok")
                /\ mca_store' = mca_store
                /\ EarlierCreateChecksPass(req) => CreateEndedNotFound
       /\ \A id \in MCAIds, req \in PmAuthUpdateRequests :
             (UpdatedWithConfig(id, req) /\ ~ReferencesValid(req, mca_store[id].profile_id))
             => /\ ~call_out'.ok
                /\ mca_store' = mca_store
                /\ EarlierUpdateChecksPass(id, req) => UpdateEndedNotFound]_vars

\* an update whose config references an account of another profile has ended with
\* the not-found error while both accounts are stored
C33_Witness ==
    /\ call_in.fn = "update_connector"
    /\ ChecksConfig(call_in.req)
    /\ call_in.merchant_connector_id = 1
    /\ call_in.req.pm_auth_config[1].mca_ids = <<2>>
    /\ {1, 2} \subseteq DOMAIN mca_store
    /\ mca_store[1].profile_id # mca_store[2].profile_id
    /\ call_out = Err("GenericNotFoundError: payment method auth profile_id differs from connector profile_id")

-----------------------------------------------------------------------------
(* the default profile after a further business profile is created *)

\* merchant "M1" is stored with a default profile
HasDefaultProfile ==
    /\ "M1" \in DOMAIN merchant_account_store
    /\ merchant_account_store["M1"].default_profile # None

\* create_business_profile inserted a profile for "M1"
ProfileCreatedByRequest(profile_name) ==
    /\ HasDefaultProfile
    /\ response'.op = "create_business_profile"
    /\ response'.ok
    /\ CreateBusinessProfile("M1", profile_name)

\* a merchant update inserted a profile for one of its business labels
ProfileCreatedByLabels(req) ==
    /\ HasDefaultProfile
    /\ response'.op = "merchant_account_update"
    /\ response'.ok
    /\ NewProfiles # {}
    /\ MerchantAccountUpdate("M1", req)

\* C34 as stated: whenever create_business_profile or the business labels of a
\* merchant update insert a further profile for a merchant that has a default
\* profile, the merchant is left without a default profile.
C34_NewProfileUnsetsDefault ==
    [][/\ \A profile_name \in ProfileNames :
             ProfileCreatedByRequest(profile_name)
             => merchant_account_store'["M1"].default_profile = None
       /\ \A req \in DefaultProfileUpdateRequests :
             ProfileCreatedByLabels(req)
             => merchant_account_store'["M1"].default_profile = None]_vars

\* C34: a further profile inserted by create_business_profile for a merchant that
\* has a default profile leaves the merchant without one; a further profile
\* inserted for the business labels of a merchant update does so too unless the
\* same request names a default profile, which is then the one stored.
C34_NewProfileUnsetsDefaultUnlessRequested ==
    [][/\ \A profile_name \in ProfileNames :
             ProfileCreatedByRequest(profile_name)
             => merchant_account_store'["M1"].default_profile = None
       /\ \A req \in DefaultProfileUpdateRequests :
             ProfileCreatedByLabels(req)
             => merchant_account_store'["M1"].default_profile =
                    IF req.default_profile = None \/ req.default_profile = Some(EmptyProfileId)
                    THEN None
                    ELSE req.default_profile]_vars

\* a merchant created with its "default" profile as default was given the profile
\* "US_food" by the labels of an update and has no default profile any more
C34_Witness ==
    /\ response.op = "merchant_account_update"
    /\ response.ok
    /\ "M1" \in DOMAIN merchant_account_store
    /\ merchant_account_store["M1"].default_profile = None
    /\ StoredNames(business_profile_store, "M1") = {"default", "US_food"}
    /\ merchant_account_store["M1"].primary_business_details # <<>>

-----------------------------------------------------------------------------
(* KV soft-kill mode *)

\* the stored account of m goes from PostgresOnly to RedisKv
KvEnabledFor(m) ==
    /\ m \in DOMAIN merchant_account_store
    /\ m \in DOMAIN merchant_account_store'
    /\ merchant_account_store[m].storage_scheme = "PostgresOnly"
    /\ merchant_account_store'[m].storage_scheme = "RedisKv"

\* C35: no request served in KV soft-kill mode moves a merchant from PostgresOnly
\* to RedisKv: such a move is made only by kv_for_merchant outside soft-kill mode
\* (toggle_kv_for_all_merchants does not read the mode, so its step is the same in
\* it), and kv_for_merchant(enable) in soft-kill mode for a PostgresOnly merchant
\* fails with InvalidRequestData and leaves the scheme as it is.
C35_NoKvEnableInSoftKillMode ==
    [][\A m \in MerchantIds :
          /\ KvEnabledFor(m) => KvForMerchant(m, TRUE, FALSE)
          /\ (/\ m \in DOMAIN merchant_account_store
              /\ m \in merchant_key_store
              /\ merchant_account_store[m].storage_scheme = "PostgresOnly"
              /\ response'.op = "kv_for_merchant"
              /\ KvForMerchant(m, TRUE, TRUE))
             => /\ ~response'.ok
                /\ response'.error = "InvalidRequestData: Kv cannot be enabled when application is in soft_kill_mode"
                /\ merchant_account_store' = merchant_account_store]_vars

-----------------------------------------------------------------------------
(* update_connector: the error reported for a failed write *)

\* the last request was update_connector
ConnectorUpdated == call_in.fn = "update_connector"

\* C36: update_connector answers DuplicateMerchantConnectorAccount only when the
\* store reported a duplicate key for the update; when the store reported that
\* the row was not found, or another failure, the answer is a different error.
C36_DuplicateOnlyOnConflict ==
    ConnectorUpdated =>
        /\ call_out = Err("DuplicateMerchantConnectorAccount")
           => call_in.store_error = "DuplicateValue"
        /\ call_in.store_error \in UpdateStoreFaults \ {"none"}
           => /\ ~call_out.ok
              /\ call_out # Err("DuplicateMerchantConnectorAccount")


\* KV toggles of single merchants, between creations, deletions and toggles of all
NextKvToggle ==
    \/ \E merchant \in MerchantIds :
           \/ CreateMerchantAccount(merchant, None)
           \/ \E enable, is_kv_soft_kill_mode \in BOOLEAN :
                  KvForMerchantCall(merchant, enable, is_kv_soft_kill_mode)
           \/ MerchantAccountDelete(merchant)
    \/ \E enable \in BOOLEAN : ToggleKvForAllMerchants(enable)

SpecKvToggle == Init /\ [][NextKvToggle]_vars

SchemeFor(enable) == IF enable THEN "RedisKv" ELSE "PostgresOnly"

\* the step is a kv_for_merchant call for this merchant and flag that succeeded
KvForMerchantSucceeds(merchant, enable) ==
    /\ call_in'.fn = "kv_for_merchant"
    /\ call_in'.merchant_id = merchant
    /\ call_in'.enable = enable
    /\ call_out'.ok
    /\ \E is_kv_soft_kill_mode \in BOOLEAN :
           KvForMerchantCall(merchant, enable, is_kv_soft_kill_mode)

\* the same call made again in the state the step leaves: no store call, the same
\* tables and the same response, in either mode
RepeatChangesNothing(merchant, enable) ==
    \A is_kv_soft_kill_mode \in BOOLEAN :
        /\ kv_for_merchant_store_writes(Db', merchant, enable, is_kv_soft_kill_mode) = 0
        /\ kv_for_merchant(Db', merchant, enable, is_kv_soft_kill_mode)
               = Outcome(Db', call_out')

\* C37: a successful kv_for_merchant(enable) leaves the merchant's storage scheme
\* RedisKv when enable is true and PostgresOnly when it is false and returns
\* kv_enabled equal to enable; when the scheme already matched it calls
\* db.update_merchant not at all and leaves every table as it was, so that the same
\* call made again changes nothing.
C37_KvForMerchantIdempotent ==
    [][\A merchant \in MerchantIds, enable \in BOOLEAN :
           KvForMerchantSucceeds(merchant, enable) =>
               /\ merchant_account_store'[merchant].storage_scheme = SchemeFor(enable)
               /\ call_out'.value = [merchant_id |-> merchant, kv_enabled |-> enable]
               /\ merchant_account_store[merchant].storage_scheme = SchemeFor(enable) =>
                      /\ call_in'.store_writes = 0
                      /\ UNCHANGED <<merchant_account_store, merchant_key_store,
                                     business_profile_store, next_generated_id>>
               /\ RepeatChangesNothing(merchant, enable)]_vars

\* a KV-enabling call for a merchant already on RedisKv succeeded without a store write
C37_Witness ==
    /\ call_in.fn = "kv_for_merchant"
    /\ call_in.enable
    /\ call_in.store_writes = 0
    /\ call_out.ok
    /\ call_out.value.kv_enabled
    /\ merchant_account_store[call_in.merchant_id].storage_scheme = "RedisKv"


BusinessProfileUpdateRequests == [is_connector_agnostic_mit_enabled : OptionOf(BOOLEAN)]

\* profiles of two merchants, updated and toggled on behalf of either merchant
NextProfileUpdate ==
    \E merchant \in MerchantIds :
        \/ CreateMerchantAccount(merchant, None)
        \/ CreateBusinessProfile(merchant, None)
        \/ \E profile_id \in 1..MaxIds :
               \/ \E request \in BusinessProfileUpdateRequests :
                      UpdateBusinessProfile(profile_id, merchant, request)
               \/ \E enabled \in BOOLEAN :
                      \/ ExtendedCardInfoToggle(merchant, profile_id, enabled)
                      \/ ConnectorAgnosticMitToggle(merchant, profile_id, enabled)

SpecProfileUpdate == Init /\ [][NextProfileUpdate]_vars

\* the step is one of the three profile-mutating operations, made on behalf of
\* this merchant for this profile
ProfileMutation(merchant, profile_id) ==
    /\ response'.op \in {"update_business_profile", "extended_card_info_toggle",
                         "connector_agnostic_mit_toggle"}
    /\ \/ \E request \in BusinessProfileUpdateRequests :
              UpdateBusinessProfile(profile_id, merchant, request)
       \/ \E enabled \in BOOLEAN :
              \/ ExtendedCardInfoToggle(merchant, profile_id, enabled)
              \/ ConnectorAgnosticMitToggle(merchant, profile_id, enabled)

\* the requesting merchant exists, the profile exists and belongs to another merchant
ForeignProfile(merchant, profile_id) ==
    /\ merchant \in merchant_key_store
    /\ profile_id \in DOMAIN business_profile_store
    /\ business_profile_store[profile_id].merchant_id # merchant

\* C38: update_business_profile, extended_card_info_toggle and
\* connector_agnostic_mit_toggle, requested by a merchant for a stored profile that
\* belongs to another merchant, fail with AccessForbidden and write nothing.
C38_ForeignProfileForbidden ==
    [][\A merchant \in MerchantIds, profile_id \in 1..MaxIds :
           ForeignProfile(merchant, profile_id) /\ ProfileMutation(merchant, profile_id) =>
               /\ ~response'.ok
               /\ response'.error = "AccessForbidden"
               /\ UNCHANGED business_profile_store]_vars


\* the choice of request p is in the list stored under this key
ChoiceStored(store, key, p) ==
    Contains(get_merchant_default_config(store, key, local[p].transaction_type),
             routable_connector_choice(merchant_default_config_update(p)))

ListsOtherThan(key, p) == DOMAIN config_store \ {<<key, local[p].transaction_type>>}

\* C39: update_merchant_default_config writes the merchant-level list before the
\* profile-level list, as two separate writes: the write of the profile-level list
\* finds the choice already stored in the merchant-level list, the write of the
\* merchant-level list leaves the profile-level list without it, and when the
\* profile-level write fails after the merchant-level write the request ends with an
\* error, the choice is in the merchant-level list and not in the profile-level
\* list, and neither a list nor the inserted account is changed back.
C39_MerchantLevelWrittenFirst ==
    [][/\ (pc[1] = "update_merchant_level" /\ config_store' # config_store) =>
              /\ ChoiceStored(config_store', merchant_id, 1)
              /\ ~ChoiceStored(config_store', Unwrap(local[1].profile_id), 1)
              /\ \A k \in ListsOtherThan(merchant_id, 1) : config_store'[k] = config_store[k]
       /\ (pc[1] = "update_profile_level" /\ config_store' # config_store) =>
              /\ ChoiceStored(config_store, merchant_id, 1)
              /\ pc'[1] = "done"
              /\ local'[1].result = Some("Ok")
       /\ (/\ pc[1] = "update_profile_level"
           /\ pc'[1] = "done"
           /\ local'[1].result = Some("InternalServerError")) =>
              /\ ChoiceStored(config_store', merchant_id, 1)
              /\ ~ChoiceStored(config_store', Unwrap(local[1].profile_id), 1)
              /\ config_store' = config_store
              /\ mca_store' = mca_store]_vars

\* a request ended with an error after its profile-level write failed: its choice
\* is stored at merchant level only
C39_Witness ==
    /\ pc[1] = "done"
    /\ local[1].result = Some("InternalServerError")
    /\ ChoiceStored(config_store, merchant_id, 1)
    /\ ~ChoiceStored(config_store, Unwrap(local[1].profile_id), 1)
    /\ Unwrap(local[1].mca).merchant_connector_id \in DOMAIN mca_store


\* organization_id of api::MerchantAccountCreate: absent, the stored organization,
\* or one that is not stored
OrganizationIds == {None, Some(ExistingOrganization), Some(<<"org", -1>>)}

\* creations of two merchants, with and without primary business details, in a new
\* or a named organization, between deletions of profiles and merchants
NextMerchantCreate ==
    \E merchant \in MerchantIds :
        \/ \E organization_id \in OrganizationIds, details \in OptionOf(BusinessDetailLists) :
               CreateMerchantAccountInOrganization(merchant, organization_id, details)
        \/ \E profile_id \in 1..MaxIds : DeleteBusinessProfile(profile_id, merchant)
        \/ MerchantAccountDelete(merchant)

SpecMerchantCreate == Init /\ [][NextMerchantCreate]_vars


\* the step is a create_merchant_account request that ended with
\* DuplicateMerchantAccount
CreateEndsDuplicate(merchant, organization_id, details) ==
    /\ response'.op = "create_merchant_account"
    /\ ~response'.ok
    /\ response'.error = "DuplicateMerchantAccount"
    /\ CreateMerchantAccountInOrganization(merchant, organization_id, details)

\* the profile names the request asks for
RequestedProfileNames(details) ==
    IF CreateBusinessProfile_new(details) = "CreateFromPrimaryBusinessDetails"
    THEN {format_profile_name(Unwrap(details)[i]) : i \in 1..Len(Unwrap(details))}
    ELSE {"default"}

\* C40: create_merchant_account persists the organization (when the request names
\* none) and the business profiles before it inserts the key store and the account:
\* a request that ends with DuplicateMerchantAccount found the merchant's key store
\* or account stored, has inserted no account, and leaves behind the organization
\* it created and the business profiles it inserted, next to every organization
\* and profile stored before.
C40_OrganizationAndProfilesRemain ==
    [][\A merchant \in MerchantIds, organization_id \in OrganizationIds,
          details \in OptionOf(BusinessDetailLists) :
           CreateEndsDuplicate(merchant, organization_id, details) =>
               /\ merchant \in merchant_key_store \/ merchant \in DOMAIN merchant_account_store
               /\ merchant_account_store' = merchant_account_store
               /\ organization_store \subseteq organization_store'
               /\ Cardinality(organization_store' \ organization_store)
                      = IF IsSome(organization_id) THEN 0 ELSE 1
               /\ \A pid \in DOMAIN business_profile_store :
                      /\ pid \in DOMAIN business_profile_store'
                      /\ business_profile_store'[pid] = business_profile_store[pid]
               /\ \A pid \in NewProfiles :
                      /\ business_profile_store'[pid].merchant_id = merchant
                      /\ business_profile_store'[pid].profile_name
                             \in RequestedProfileNames(details)
               /\ CreateBusinessProfile_new(details) = "CreateDefaultBusinessProfile" =>
                      Cardinality(NewProfiles) = 1]_vars

\* a creation ended with DuplicateMerchantAccount and an organization that no
\* merchant account belongs to is stored, with the merchant's second profile
C40_Witness ==
    /\ response.op = "create_merchant_account"
    /\ response.error = "DuplicateMerchantAccount"
    /\ \E organization \in organization_store \ {ExistingOrganization} :
           \A m \in DOMAIN merchant_account_store :
               merchant_account_store[m].organization_id # organization
    /\ \E m \in DOMAIN merchant_account_store :
           Cardinality({pid \in DOMAIN business_profile_store :
                            business_profile_store[pid].merchant_id = m}) = 2

====
